---- MODULE Spec2Model ----
(***************************************************************************)
(* A model of the Threes rules engine of davitf/puzzle-ai:                 *)
(*   threes/threes_util.py  line collapse, board rotation, board move,     *)
(*                          legality, game over, scoring                   *)
(*   threes/threes_env.py   the ThreesGame session (reset / step)          *)
(*   threes/randomized_order_iter.py  the self-reshuffling draw queue      *)
(* Python arrays are 0-based; the sequences below are 1-based, so the cell *)
(* the code calls line[i] is line[i + 1] here.  An exception raised by the *)
(* code is the "raised" field of the value an operator returns.            *)
(***************************************************************************)
EXTENDS Integers, Sequences, FiniteSets, TLC

(***************************************************************************)
(* threes_util.py: piece codes and scores                                  *)
(***************************************************************************)
EMPTY_SPACE == 0
PIECE_1 == 1
PIECE_2 == 2
PIECE_3 == 3
PIECE_6 == 4
PIECE_24 == 6
PIECE_48 == 7
PIECE_384 == 10
PIECE_768 == 11
PIECE_6144 == 14
PIECE_12288 == 15
MAX_PIECE == PIECE_12288
POSSIBLE_FUTURE_PIECE == -100

DIRECTION_LEFT == 0
DIRECTION_UP == 1
DIRECTION_RIGHT == 2
DIRECTION_DOWN == 3
NUM_ACTIONS == 4
Directions == 0 .. (NUM_ACTIONS - 1)

\* SCORES = [0, 0, 0] + [3 ** i for i in range(1, 14)]: a list of 16 entries,
\* the entry of piece code c is SCORES[c + 1] here.
SCORES == <<0, 0, 0>> \o [i \in 1 .. 13 |-> 3 ^ i]

\* SCORES[c] of the code: an index past the end of the list raises IndexError.
ScoreInRange(c) == c >= 0 /\ c + 1 <= Len(SCORES)
Score(c) == SCORES[c + 1]

(***************************************************************************)
(* threes_util.py: move_line_left                                          *)
(***************************************************************************)
\* The three branches of the loop body, tested at cells p, p + 1.
ShiftAt(line, p) == line[p] = EMPTY_SPACE /\ line[p + 1] # EMPTY_SPACE
\* A fault: a base piece merges with any base piece, two 1s or two 2s included.
Merge12At_AnyBasePair(line, p) ==
    /\ PIECE_1 <= line[p]
    /\ line[p] <= PIECE_2
    /\ line[p + 1] \in {PIECE_1, PIECE_2}
Merge12At(line, p) ==
    /\ PIECE_1 <= line[p]
    /\ line[p] <= PIECE_2
    /\ line[p] + line[p + 1] = 3
MergeEqualAt(line, p) == PIECE_3 <= line[p] /\ line[p] = line[p + 1]
BranchAt(line, p) == ShiftAt(line, p) \/ Merge12At(line, p) \/ MergeEqualAt(line, p)

\* for i in range(len(line) - 1): the first position at which a branch is
\* taken (the loop breaks there), or 0 when the loop runs into its else.
RECURSIVE ScanFrom(_, _)
ScanFrom(line, p) ==
    IF p > Len(line) - 1 THEN 0
    ELSE IF BranchAt(line, p) THEN p
    ELSE ScanFrom(line, p + 1)

\* line[i:-1] = line[i + 1:] ; line[-1] = EMPTY_SPACE
ShiftLeftFrom(line, p) ==
    [q \in 1 .. Len(line) |->
        IF q = Len(line) THEN EMPTY_SPACE
        ELSE IF q >= p THEN line[q + 1]
        ELSE line[q]]

\* A fault: a merge without line[-1] = EMPTY_SPACE.
MergeInto_KeepsLast(line, p, v) ==
    [q \in 1 .. Len(line) |->
        IF q = Len(line) THEN line[q]
        ELSE IF q = p THEN v
        ELSE IF q > p THEN line[q + 1]
        ELSE line[q]]
\* line[i] = v ; line[i + 1:-1] = line[i + 2:] ; line[-1] = EMPTY_SPACE
MergeInto(line, p, v) ==
    [q \in 1 .. Len(line) |->
        IF q = Len(line) THEN EMPTY_SPACE
        ELSE IF q = p THEN v
        ELSE IF q > p THEN line[q + 1]
        ELSE line[q]]

LineResult(raised, moved, delta, line) ==
    [raised |-> raised, moved |-> moved, score_delta |-> delta, line |-> line]

\* A fault: score_delta = SCORES[line[i] + 1] - 3 * SCORES[line[i]], the merged
\* tile scored as three of the tiles it was made of.
MoveLineLeftAt_MergeScoresThree(line, do_move, p) ==
    IF p = 0 THEN LineResult("none", FALSE, 0, line)
    ELSE IF ShiftAt(line, p)
        THEN LineResult("none", TRUE, 0,
                        IF do_move THEN ShiftLeftFrom(line, p) ELSE line)
    ELSE IF Merge12At(line, p)
        THEN LineResult("none", TRUE, Score(PIECE_3),
                        IF do_move THEN MergeInto(line, p, PIECE_3) ELSE line)
    ELSE IF ~ScoreInRange(line[p] + 1)
        THEN LineResult("IndexError", FALSE, 0, line)
    ELSE LineResult("none", TRUE, Score(line[p] + 1) - 3 * Score(line[p]),
                    IF do_move THEN MergeInto(line, p, line[p] + 1) ELSE line)
\* A fault: line[i] += 2, two equal tiles merge into the tile two ranks up.
MoveLineLeftAt_MergeSkipsRank(line, do_move, p) ==
    IF p = 0 THEN LineResult("none", FALSE, 0, line)
    ELSE IF ShiftAt(line, p)
        THEN LineResult("none", TRUE, 0,
                        IF do_move THEN ShiftLeftFrom(line, p) ELSE line)
    ELSE IF Merge12At(line, p)
        THEN LineResult("none", TRUE, Score(PIECE_3),
                        IF do_move THEN MergeInto(line, p, PIECE_3) ELSE line)
    ELSE IF ~ScoreInRange(line[p] + 1)
        THEN LineResult("IndexError", FALSE, 0, line)
    ELSE LineResult("none", TRUE, Score(line[p] + 1) - 2 * Score(line[p]),
                    IF do_move THEN MergeInto(line, p, line[p] + 2) ELSE line)

\* The body of move_line_left once the loop has ended at position p (0: in
\* its else branch).
MoveLineLeftAt(line, do_move, p) ==
    IF p = 0 THEN LineResult("none", FALSE, 0, line)
    ELSE IF ShiftAt(line, p)
        THEN LineResult("none", TRUE, 0,
                        IF do_move THEN ShiftLeftFrom(line, p) ELSE line)
    ELSE IF Merge12At(line, p)
        THEN LineResult("none", TRUE, Score(PIECE_3),
                        IF do_move THEN MergeInto(line, p, PIECE_3) ELSE line)
    ELSE IF ~ScoreInRange(line[p] + 1)
        \* SCORES[line[i] + 1] is evaluated before the line is touched.
        THEN LineResult("IndexError", FALSE, 0, line)
    ELSE LineResult("none", TRUE, Score(line[p] + 1) - 2 * Score(line[p]),
                    IF do_move THEN MergeInto(line, p, line[p] + 1) ELSE line)

\* A fault: do_move is ignored and the line is always changed.
MoveLineLeft_IgnoresDoMove(line, do_move) ==
    MoveLineLeftAt(line, TRUE, ScanFrom(line, 1))
\* A fault: line[-1] = EMPTY_SPACE runs after the loop, whether or not it broke.
VacateLast(r, do_move) ==
    IF do_move /\ Len(r.line) > 0
    THEN [r EXCEPT !.line = [r.line EXCEPT ![Len(r.line)] = EMPTY_SPACE]]
    ELSE r
MoveLineLeft_AlwaysVacatesLast(line, do_move) ==
    VacateLast(MoveLineLeftAt(line, do_move, ScanFrom(line, 1)), do_move)
MoveLineLeft(line, do_move) == MoveLineLeftAt(line, do_move, ScanFrom(line, 1))

\* is_line_movable_left(line) = move_line_left(line, False)[0]
FirstOf(r) == [raised |-> r.raised, value |-> r.moved, line |-> r.line]
IsLineMovableLeft(line) == FirstOf(MoveLineLeft(line, FALSE))

\* total_score: the sum of SCORES[x] over the cells x >= 0 of a line.
RECURSIVE TotalScoreLine(_)
TotalScoreLine(line) ==
    IF Len(line) = 0 THEN 0
    ELSE (IF Head(line) >= 0 THEN Score(Head(line)) ELSE 0)
         + TotalScoreLine(Tail(line))

(***************************************************************************)
(* threes_util.py: rotated_boards_view.  A board is a sequence of rows.    *)
(* The view np.rot90(board, k=direction) is not a copy: cell (i, j) of the *)
(* view IS a cell of the board, so the view is modelled by the board       *)
(* coordinates ViewCell gives for every view coordinate.  One rotation     *)
(* satisfies rot90(m)[i][j] = m[j][n - 1 - i] (0-based).                   *)
(***************************************************************************)
Side(board) == Len(board)
Cells(n) == (1 .. n) \X (1 .. n)

RECURSIVE Rot90Cell(_, _, _, _)
Rot90Cell(n, k, i, j) ==
    IF k = 0 THEN <<i, j>>
    ELSE Rot90Cell(n, k - 1, j, n + 1 - i)

\* A fault: the board is rotated clockwise, np.rot90(board, k=-direction).
ViewCell_Clockwise(n, direction, i, j) ==
    Rot90Cell(n, (NUM_ACTIONS - direction) % NUM_ACTIONS, i, j)
\* if direction == 0: return board ; else np.rot90(board, k=direction)
ViewCell(n, direction, i, j) ==
    IF direction = 0 THEN <<i, j>> ELSE Rot90Cell(n, direction, i, j)

\* Reading row i of the view (`for line in rotated`).
CellAt(board, rc) == board[rc[1]][rc[2]]
ViewLine(board, direction, i) ==
    [j \in 1 .. Side(board) |-> CellAt(board, ViewCell(Side(board), direction, i, j))]

\* Writing one cell of the view writes the board cell it aliases.
SetCellAt(board, rc, v) == [board EXCEPT ![rc[1]][rc[2]] = v]
ViewSetCell(board, direction, i, j, v) ==
    SetCellAt(board, ViewCell(Side(board), direction, i, j), v)

\* Writing a whole row of the view, cell by cell.
RECURSIVE ViewSetLineFrom(_, _, _, _, _)
ViewSetLineFrom(board, direction, i, line, j) ==
    IF j > Len(line) THEN board
    ELSE ViewSetLineFrom(ViewSetCell(board, direction, i, j, line[j]),
                         direction, i, line, j + 1)
ViewSetLine(board, direction, i, line) == ViewSetLineFrom(board, direction, i, line, 1)

(***************************************************************************)
(* threes_util.py: _move_board, move_board, move_board_preview             *)
(***************************************************************************)
\* The loop `for line in rotated` of _move_board from view row i on: each row
\* is collapsed in place; an exception leaves the rows already collapsed as
\* they are.  rows is nextpiece_possible_rows, as view row numbers.
RECURSIVE MoveBoardLoop(_, _, _, _, _)
RECURSIVE MoveBoardLine(_, _, _, _, _, _)
MoveBoardLoop(board, direction, i, total, rows) ==
    IF i > Side(board)
    THEN [raised |-> "none", board |-> board, total_score_delta |-> total, rows |-> rows]
    ELSE MoveBoardLine(board, direction, i, total, rows,
                       MoveLineLeft(ViewLine(board, direction, i), TRUE))
\* A fault: total_score_delta = score_delta, the last line's delta only.
MoveBoardLine_KeepsLastDelta(board, direction, i, total, rows, r) ==
    IF r.raised # "none"
    THEN [raised |-> r.raised, board |-> board,
          total_score_delta |-> total, rows |-> rows]
    ELSE MoveBoardLoop(ViewSetLine(board, direction, i, r.line), direction,
                       i + 1, r.score_delta,
                       IF r.moved THEN Append(rows, i) ELSE rows)
\* The body of the loop once move_line_left has returned (or raised) r.
MoveBoardLine(board, direction, i, total, rows, r) ==
    IF r.raised # "none"
    THEN [raised |-> r.raised, board |-> board,
          total_score_delta |-> total, rows |-> rows]
    ELSE MoveBoardLoop(ViewSetLine(board, direction, i, r.line), direction,
                       i + 1, total + r.score_delta,
                       IF r.moved THEN Append(rows, i) ELSE rows)

\* if not nextpiece_possible_rows: raise IllegalMoveError
RaiseIfNoRows(r) ==
    IF r.raised # "none" THEN r
    ELSE IF r.rows = <<>> THEN [r EXCEPT !.raised = "IllegalMoveError"]
    ELSE r
InnerMoveBoard(board, direction) ==
    RaiseIfNoRows(MoveBoardLoop(board, direction, 1, 0, <<>>))

\* move_board with the value row_to_add that np_rand.choice returned.
\* choice_arg is the argument np_rand.choice was called with (0: not called).
\* rotated[nextpiece_possible_rows[row_to_add], -1] = piece_to_add
PlacePiece(r, direction, piece_to_add, row_to_add) ==
    IF r.raised # "none"
    THEN [raised |-> r.raised, board |-> r.board, ret |-> 0, choice_arg |-> 0]
    ELSE [raised |-> "none",
          board |-> ViewSetCell(r.board, direction, r.rows[row_to_add + 1],
                                Side(r.board), piece_to_add),
          ret |-> r.total_score_delta,
          choice_arg |-> Len(r.rows)]
MoveBoard(board, direction, piece_to_add, row_to_add) ==
    PlacePiece(InnerMoveBoard(board, direction), direction, piece_to_add, row_to_add)

\* The values np_rand.choice(len(nextpiece_possible_rows)) can return.
RowIndexes(r) == IF r.raised # "none" THEN {0} ELSE 0 .. (Len(r.rows) - 1)
RowChoices(board, direction) == RowIndexes(InnerMoveBoard(board, direction))

RECURSIVE MarkRows(_, _, _, _)
MarkRows(board, direction, rows, k) ==
    IF k > Len(rows) THEN board
    ELSE MarkRows(ViewSetCell(board, direction, rows[k], Side(board),
                              POSSIBLE_FUTURE_PIECE),
                  direction, rows, k + 1)

\* move_board_preview works on board.copy(): `board` itself is the argument
\* the caller keeps, `moved_board` the array returned.
MarkPossibleRows(board, direction, r) ==
    IF r.raised # "none"
    THEN [raised |-> r.raised, board |-> board, moved_board |-> r.board, ret |-> 0]
    ELSE [raised |-> "none", board |-> board,
          moved_board |-> MarkRows(r.board, direction, r.rows, 1),
          ret |-> r.total_score_delta]
MoveBoardPreview(board, direction) ==
    MarkPossibleRows(board, direction, InnerMoveBoard(board, direction))

(***************************************************************************)
(* threes_util.py: is_legal_action, is_game_over                           *)
(***************************************************************************)
\* any(is_line_movable_left(line) for line in lines): the generator is
\* consumed in order and stops at the first true value or exception.
RECURSIVE AnyMovable(_, _)
RECURSIVE AnyMovableFrom(_, _, _)
AnyMovable(lines, k) ==
    IF k > Len(lines) THEN [raised |-> "none", value |-> FALSE]
    ELSE AnyMovableFrom(lines, k, IsLineMovableLeft(lines[k]))
\* any() once the generator has yielded (or raised) r for line k.
AnyMovableFrom(lines, k, r) ==
    IF r.raised # "none" THEN [raised |-> r.raised, value |-> FALSE]
    ELSE IF r.value THEN [raised |-> "none", value |-> TRUE]
    ELSE AnyMovable(lines, k + 1)

IsLegalAction(board, direction) ==
    AnyMovable([i \in 1 .. Side(board) |-> ViewLine(board, direction, i)], 1)

Reversed(line) == [q \in 1 .. Len(line) |-> line[Len(line) + 1 - q]]
Transposed(board) ==
    [i \in 1 .. Side(board) |-> [j \in 1 .. Side(board) |-> board[j][i]]]

\* `is_line_movable_left(line) or is_line_movable_left(line[::-1]) for line in b`
BothWays(b) ==
    [k \in 1 .. 2 * Len(b) |->
        IF k % 2 = 1 THEN b[(k + 1) \div 2] ELSE Reversed(b[k \div 2])]

BoardContains(board, v) ==
    \E i \in 1 .. Side(board) : \E j \in 1 .. Side(board) : board[i][j] = v

\* A fault: only the rows are tried, not the columns (board.T).
NoneMovable(any) == [raised |-> any.raised, value |-> any.raised = "none" /\ ~any.value]
IsGameOver_RowsOnly(board) ==
    IF BoardContains(board, PIECE_12288) THEN [raised |-> "none", value |-> TRUE]
    ELSE NoneMovable(AnyMovable(BothWays(board), 1))
\* A fault: the game is over as soon as the board has no empty cell.
IsGameOver_FullBoard(board) ==
    IF BoardContains(board, PIECE_12288) THEN [raised |-> "none", value |-> TRUE]
    ELSE [raised |-> "none", value |-> ~BoardContains(board, EMPTY_SPACE)]
\* `for b in (board, board.T)`: the second half, once the rows gave `rows`.
GameOverAfterRows(board, rows) ==
    IF rows.raised # "none" \/ rows.value
    THEN [raised |-> rows.raised, value |-> FALSE]
    ELSE NoneMovable(AnyMovable(BothWays(Transposed(board)), 1))
IsGameOver(board) ==
    IF BoardContains(board, PIECE_12288) THEN [raised |-> "none", value |-> TRUE]
    ELSE GameOverAfterRows(board, AnyMovable(BothWays(board), 1))

\* total_score of a board: np.array(input).flatten()
RECURSIVE TotalScoreRows(_, _)
TotalScoreRows(board, i) ==
    IF i > Len(board) THEN 0
    ELSE TotalScoreLine(board[i]) + TotalScoreRows(board, i + 1)
TotalScore(board) == TotalScoreRows(board, 1)
\* total_score called on a board: SCORES[x] raises IndexError for a cell x >= 0
\* past the end of SCORES.
TotalScoreCall(input) ==
    IF \A x \in Cells(Side(input)) :
           input[x[1]][x[2]] >= 0 => ScoreInRange(input[x[1]][x[2]])
    THEN [raised |-> "none", ret |-> TotalScore(input)]
    ELSE [raised |-> "IndexError", ret |-> 0]

\* future_piece_possibilities: [piece_code] or range(max(PIECE_6, c - 2), c + 1)
Range(lo, hi) == [k \in 1 .. (hi - lo) |-> lo + k - 1]
\* A fault: range(max(PIECE_6, piece_code - 2), piece_code), without the code.
FuturePiecePossibilities_ExcludesTop(piece_code) ==
    IF piece_code <= PIECE_6 THEN <<piece_code>>
    ELSE Range(IF piece_code - 2 > PIECE_6 THEN piece_code - 2 ELSE PIECE_6,
               piece_code)
FuturePiecePossibilities(piece_code) ==
    IF piece_code <= PIECE_6 THEN <<piece_code>>
    ELSE Range(IF piece_code - 2 > PIECE_6 THEN piece_code - 2 ELSE PIECE_6,
               piece_code + 1)

(***************************************************************************)
(* randomized_order_iter.py.  A queue is its contents and its cursor pos   *)
(* (0-based, as in the code).  rand.shuffle is the randomness source: the  *)
(* order it leaves is an input, `shuffled`, one of ShuffleOutcomes.        *)
(***************************************************************************)
RECURSIVE Insert(_, _)
Insert(x, sorted) ==
    IF sorted = <<>> \/ x <= Head(sorted) THEN <<x>> \o sorted
    ELSE <<Head(sorted)>> \o Insert(x, Tail(sorted))
RECURSIVE Ascending(_)
Ascending(s) == IF s = <<>> THEN <<>> ELSE Insert(Head(s), Ascending(Tail(s)))

\* The orders the model lets rand.shuffle leave a list of piece codes in:
\* each is a permutation of the list.
ShuffleOutcomes(s) == {s, Ascending(s)}
\* The same for the list of flags of the special queue.
FlagShuffleOutcomes(s) == {s, Reversed(s)}

\* A fault: self.pos = 0, the first pass starts without a shuffle.
NewQueue_StartsAtFront(contents) == [contents |-> contents, pos |-> 0]
\* __init__: self.pos = len(contents) - 1
NewQueue(contents) == [contents |-> contents, pos |-> Len(contents) - 1]

\* __next__, with the order `shuffled` a shuffle leaves if one is due.
ShuffleDue(q) == q.pos + 1 = Len(q.contents)
QueueNext(q, shuffled) ==
    IF ShuffleDue(q)
    THEN [queue |-> [contents |-> shuffled, pos |-> 0], value |-> shuffled[1]]
    ELSE [queue |-> [q EXCEPT !.pos = q.pos + 1], value |-> q.contents[q.pos + 2]]

\* n calls of next(): the values drawn, in order, and the queue afterwards.
RECURSIVE QueueDraw(_, _, _)
RECURSIVE QueueDrawAfter(_, _, _)
DrawnFirst(v, rest) == [queue |-> rest.queue, values |-> <<v>> \o rest.values]
QueueDraw(q, n, shuffled) ==
    IF n = 0 THEN [queue |-> q, values |-> <<>>]
    ELSE QueueDrawAfter(QueueNext(q, shuffled), n, shuffled)
QueueDrawAfter(one, n, shuffled) ==
    DrawnFirst(one.value, QueueDraw(one.queue, n - 1, shuffled))

(***************************************************************************)
(* threes_env.py: ThreesGame.  A session s is the record of its fields.    *)
(* The values the randomness source returns during one call are the record *)
(* rng: base_shuffle, flag_shuffle, board_shuffle (orders left by          *)
(* shuffle), high_piece, randint, piece (values chosen), row (row_to_add). *)
(***************************************************************************)
SPECIAL_PIECE_FREQUENCY == 21
INITIAL_PIECES_IN_BOARD == 9
BoardSize == 4
\* high_pieces=None is wrapped into the list [None]; NONE stands for None.
NONE == -1

BaseQueueContents ==
    [k \in 1 .. 12 |-> IF k % 3 = 1 THEN PIECE_1 ELSE IF k % 3 = 2 THEN PIECE_2 ELSE PIECE_3]
SpecialQueueContents == [k \in 1 .. SPECIAL_PIECE_FREQUENCY |-> k = 1]

Max(vals) == CHOOSE m \in vals : \A v \in vals : v <= m
BoardMax(board) == Max({board[x[1]][x[2]] : x \in Cells(Side(board))})

\* state[: board_area] = flat ; board = state[: board_area].reshape((n, n))
Reshape(flat, n) == [i \in 1 .. n |-> [j \in 1 .. n |-> flat[(i - 1) * n + j]]]

\* choose_future_piece_display
SpecialDrawn(s) == BoardMax(s.board) >= PIECE_48
\* self.future_piece = next(self.next_piece_queue), after `base` was drawn
BaseDisplay(s, base) ==
    [s EXCEPT !.next_piece_queue = base.queue, !.future_piece = base.value]
\* A fault: the board maximum itself is put on display.
SpecialDisplay_ShowsMaximum(s, rng, max_special_piece) ==
    [s EXCEPT !.future_piece = max_special_piece + 3]
\* the branch `if is_special`
SpecialDisplay(s, rng, max_special_piece) ==
    IF max_special_piece <= PIECE_24
    THEN [s EXCEPT !.future_piece = max_special_piece]
    ELSE [s EXCEPT !.future_piece = rng.randint]
\* after is_special = next(self.special_queue) gave `flag`
DisplayAfterFlag(s, rng, highest_piece, flag) ==
    IF ~flag.value
    THEN BaseDisplay([s EXCEPT !.special_queue = flag.queue],
                     QueueNext(s.next_piece_queue, rng.base_shuffle))
    ELSE SpecialDisplay([s EXCEPT !.special_queue = flag.queue], rng, highest_piece - 3)
\* A fault: is_special = next(self.special_queue) and highest_piece >= PIECE_48,
\* the flag drawn whatever the board holds.
ChooseFuturePieceDisplay_FlagFirst(s, rng) ==
    IF SpecialDrawn(s)
    THEN DisplayAfterFlag(s, rng, BoardMax(s.board),
                          QueueNext(s.special_queue, rng.flag_shuffle))
    ELSE BaseDisplay([s EXCEPT !.special_queue =
                                   QueueNext(s.special_queue, rng.flag_shuffle).queue],
                     QueueNext(s.next_piece_queue, rng.base_shuffle))
ChooseFuturePieceDisplay(s, rng) ==
    IF SpecialDrawn(s)
    THEN DisplayAfterFlag(s, rng, BoardMax(s.board),
                          QueueNext(s.special_queue, rng.flag_shuffle))
    ELSE BaseDisplay(s, QueueNext(s.next_piece_queue, rng.base_shuffle))

\* init_board, up to the assignment to self.state
Zeros(n) == [k \in 1 .. n |-> EMPTY_SPACE]
BoardList(drawn, with_high) ==
    [queue |-> drawn.queue,
     list |-> Zeros(BoardSize * BoardSize - INITIAL_PIECES_IN_BOARD) \o drawn.values,
     with_high |-> with_high]
InitBoardList(s, rng) ==
    BoardList(QueueDraw(s.next_piece_queue,
                        INITIAL_PIECES_IN_BOARD - (IF s.high_pieces # <<>> THEN 1 ELSE 0),
                        rng.base_shuffle),
              s.high_pieces # <<>>)

\* reset.  Storing None into the integer array self.state raises TypeError.
FreshQueues(s) ==
    [s EXCEPT !.next_piece_queue = NewQueue(BaseQueueContents),
              !.special_queue = NewQueue(SpecialQueueContents)]
\* A fault: board = board + [high_piece], the high piece in the last cell.
FlatBoard_HighPieceLast(ib, rng) ==
    IF ib.with_high THEN rng.board_shuffle \o <<rng.high_piece>> ELSE rng.board_shuffle
FlatBoard(ib, rng) ==
    IF ib.with_high THEN <<rng.high_piece>> \o rng.board_shuffle ELSE rng.board_shuffle
\* reset once init_board has built its list ib on the session s1
\* A fault: reset leaves total_score as it is.
ResetAfterList_KeepsScore(s1, rng, ib) ==
    IF ib.with_high /\ rng.high_piece = NONE
    THEN [raised |-> "TypeError", session |-> [s1 EXCEPT !.next_piece_queue = ib.queue]]
    ELSE [raised |-> "none",
          session |-> ChooseFuturePieceDisplay(
                          [s1 EXCEPT !.next_piece_queue = ib.queue,
                                     !.board = Reshape(FlatBoard(ib, rng), BoardSize)],
                          rng)]
ResetAfterList(s1, rng, ib) ==
    IF ib.with_high /\ rng.high_piece = NONE
    THEN [raised |-> "TypeError", session |-> [s1 EXCEPT !.next_piece_queue = ib.queue]]
    ELSE [raised |-> "none",
          session |-> [ChooseFuturePieceDisplay(
                           [s1 EXCEPT !.next_piece_queue = ib.queue,
                                      !.board = Reshape(FlatBoard(ib, rng), BoardSize)],
                           rng)
                       EXCEPT !.total_score = 0]]
ResetFresh(s1, rng) == ResetAfterList(s1, rng, InitBoardList(s1, rng))
Reset(s, rng) == ResetFresh(FreshQueues(s), rng)

\* choose_piece_to_add: the only candidate, or np_random.choice(possible_pieces)
PieceChoices(future) ==
    {FuturePiecePossibilities(future)[k] :
        k \in 1 .. Len(FuturePiecePossibilities(future))}
\* choice_arg is the length of the list np_random.choice is called with (0: it
\* is not called); rng.piece is the value it returns.
PieceChosen(possible_pieces, rng) ==
    IF Len(possible_pieces) = 1
    THEN [piece |-> possible_pieces[1], choice_arg |-> 0]
    ELSE [piece |-> rng.piece, choice_arg |-> Len(possible_pieces)]
\* A fault: the piece below the chosen one is returned.
ChoosePieceToAdd_OneLower(future, rng) ==
    [piece |-> PieceChosen(FuturePiecePossibilities(future), rng).piece - 1,
     choice_arg |-> PieceChosen(FuturePiecePossibilities(future), rng).choice_arg]
ChoosePieceToAdd(future, rng) == PieceChosen(FuturePiecePossibilities(future), rng)

\* step once the board has moved: the return value
StepReturn(s2, score_delta, over) ==
    [raised |-> over.raised, session |-> s2,
     score_delta |-> score_delta, game_over |-> over.value]
StepDisplayed(s2, score_delta) == StepReturn(s2, score_delta, IsGameOver(s2.board))
\* A fault: the display value is chosen from the board as it was before the
\* move.
StepAfterMove_DisplayBeforeMove(s, failed, rng, mb) ==
    IF mb.raised # "none"
    THEN [raised |-> mb.raised, session |-> [failed EXCEPT !.board = mb.board],
          score_delta |-> 0, game_over |-> FALSE]
    ELSE StepDisplayed([ChooseFuturePieceDisplay(
                            [s EXCEPT !.total_score = s.total_score + mb.ret], rng)
                        EXCEPT !.board = mb.board],
                       mb.ret)
\* step once move_board has returned (or raised) mb; `failed` is the session
\* an exception leaves behind.
StepAfterMove(s, failed, rng, mb) ==
    IF mb.raised # "none"
    THEN [raised |-> mb.raised, session |-> [failed EXCEPT !.board = mb.board],
          score_delta |-> 0, game_over |-> FALSE]
    ELSE StepDisplayed(ChooseFuturePieceDisplay(
                           [s EXCEPT !.board = mb.board,
                                     !.total_score = s.total_score + mb.ret], rng),
                       mb.ret)
AdvanceQueue(nq) == [nq EXCEPT !.pos = (nq.pos + 1) % Len(nq.contents)]
\* A fault: a base piece is drawn from next_piece_queue before the move is
\* tried, so a move that fails has advanced the queue.
\* step with the piece choose_piece_to_add has returned
StepChosen(s, failed, action, rng, chosen) ==
    StepAfterMove(s, failed, rng, MoveBoard(s.board, action, chosen.piece, rng.row))
        @@ [piece |-> chosen.piece, choice_arg |-> chosen.choice_arg]
Step_DrawsBeforeMove(s, action, rng) ==
    StepChosen(s, [s EXCEPT !.next_piece_queue = AdvanceQueue(s.next_piece_queue)],
               action, rng, ChoosePieceToAdd(s.future_piece, rng))
\* step
Step(s, action, rng) ==
    StepChosen(s, s, action, rng, ChoosePieceToAdd(s.future_piece, rng))

(***************************************************************************)
(* State.                                                                  *)
(*   line, board   the arrays the functions of threes_util.py are handed   *)
(*                 (board is also ThreesGame.board)                        *)
(*   call          the last call made: its arguments, the array as it was  *)
(*                 before the call, what it raised and what it returned    *)
(*   future_piece, total_score, next_piece_queue, special_queue,           *)
(*   high_pieces   the fields of a ThreesGame                              *)
(*   ncalls        how many calls of reset and step the session has had    *)
(*   score_returned  what the caller has seen: the sum of the score deltas *)
(*                 step has returned since the last reset                  *)
(***************************************************************************)
VARIABLES line, board, call,
          future_piece, total_score, next_piece_queue, special_queue, high_pieces,
          ncalls, score_returned

sessionVars ==
    <<future_piece, total_score, next_piece_queue, special_queue, high_pieces, ncalls,
      score_returned>>
vars == <<line, board, call, future_piece, total_score, next_piece_queue,
          special_queue, high_pieces, ncalls, score_returned>>

Call(op, before, direction, piece_to_add, row_to_add, choice_arg, raised, ret) ==
    [op |-> op, before |-> before, direction |-> direction,
     piece_to_add |-> piece_to_add, row_to_add |-> row_to_add,
     choice_arg |-> choice_arg, raised |-> raised, ret |-> ret, cell |-> <<0, 0>>]
NoCall == Call("none", <<>>, 0, 0, 0, 0, "none", 0)

\* A queue nobody has built yet, and the session fields before __init__.
NoQueue == [contents |-> <<>>, pos |-> 0]
NoSession ==
    /\ future_piece = 0
    /\ total_score = 0
    /\ next_piece_queue = NoQueue
    /\ special_queue = NoQueue
    /\ high_pieces = <<>>
    /\ ncalls = 0
    /\ score_returned = 0

(***************************************************************************)
(* SpecLine: move_line_left and is_line_movable_left on every line of      *)
(* piece codes of length 0 .. MaxLen.                                      *)
(***************************************************************************)
MaxLen == 4
PieceCodes == EMPTY_SPACE .. MAX_PIECE

InitLine ==
    /\ \E n \in 0 .. MaxLen : line \in [1 .. n -> PieceCodes]
    /\ board = <<>>
    /\ call = NoCall
    /\ NoSession

CallMoveLineLeft ==
    /\ call.op = "none"
    /\ LET r == MoveLineLeft(line, TRUE) IN
       /\ line' = r.line
       /\ call' = Call("move_line_left", line, 0, 0, 0, 0, r.raised,
                       <<r.moved, r.score_delta>>)
    /\ UNCHANGED <<board, sessionVars>>

CallMoveLineLeftNoMove ==
    /\ call.op = "none"
    /\ LET r == MoveLineLeft(line, FALSE) IN
       /\ line' = r.line
       /\ call' = Call("move_line_left_no_move", line, 0, 0, 0, 0, r.raised,
                       <<r.moved, r.score_delta>>)
    /\ UNCHANGED <<board, sessionVars>>

CallIsLineMovableLeft ==
    /\ call.op = "none"
    /\ LET r == IsLineMovableLeft(line) IN
       /\ line' = r.line
       /\ call' = Call("is_line_movable_left", line, 0, 0, 0, 0, r.raised, r.value)
    /\ UNCHANGED <<board, sessionVars>>

NextLine == CallMoveLineLeft \/ CallMoveLineLeftNoMove \/ CallIsLineMovableLeft
SpecLine == InitLine /\ [][NextLine]_vars

(***************************************************************************)
(* SpecBoard: move_board, move_board_preview, is_legal_action and          *)
(* is_game_over, each called once on an input board.  The inputs are every *)
(* board of side 2 over BoardCodes, every board of side 3 with at most     *)
(* MaxTiles tiles, every full board of side 3 of 1s and 3s, and the two    *)
(* boards of side 4 the tests use.                                         *)
(***************************************************************************)
MaxTiles == 2
BoardCodes == {EMPTY_SPACE, PIECE_1, PIECE_2, PIECE_3, PIECE_6144, PIECE_12288}
TileCodes == BoardCodes \ {EMPTY_SPACE}
PiecesToAdd == {PIECE_1, PIECE_384}

BoardOf(n, f) ==
    [i \in 1 .. n |-> [j \in 1 .. n |->
        IF <<i, j>> \in DOMAIN f THEN f[<<i, j>>] ELSE EMPTY_SPACE]]
SparseBoard(b, n, k) ==
    \E S \in SUBSET Cells(n) :
        /\ Cardinality(S) <= k
        /\ \E f \in [S -> TileCodes] : b = BoardOf(n, f)
FullBoards(n, codes) == [1 .. n -> [1 .. n -> codes]]

\* test_threes_util.py: SAMPLE_BOARD, and the empty board of side 4
SAMPLE_BOARD == <<<<3, 4, 7, 4>>, <<1, 2, 3, 0>>, <<4, 5, 0, 0>>, <<1, 1, 0, 0>>>>
EmptyBoard(n) == [i \in 1 .. n |-> [j \in 1 .. n |-> EMPTY_SPACE]]

InitBoard ==
    /\ \/ board \in FullBoards(2, BoardCodes)
       \/ SparseBoard(board, 3, MaxTiles)
       \/ board \in FullBoards(3, {PIECE_1, PIECE_3})
       \/ board \in {SAMPLE_BOARD, EmptyBoard(4)}
    /\ line = <<>>
    /\ call = NoCall
    /\ NoSession

CallMoveBoard ==
    /\ call.op = "none"
    /\ \E direction \in Directions, piece_to_add \in PiecesToAdd :
       \E row_to_add \in RowChoices(board, direction) :
          LET r == MoveBoard(board, direction, piece_to_add, row_to_add) IN
          /\ board' = r.board
          /\ call' = Call("move_board", board, direction, piece_to_add,
                          row_to_add, r.choice_arg, r.raised, r.ret)
    /\ UNCHANGED <<line, sessionVars>>

CallMoveBoardPreview ==
    /\ call.op = "none"
    /\ \E direction \in Directions :
          LET r == MoveBoardPreview(board, direction) IN
          /\ board' = r.board
          /\ call' = Call("move_board_preview", board, direction, 0, 0, 0,
                          r.raised, <<r.moved_board, r.ret>>)
    /\ UNCHANGED <<line, sessionVars>>

CallIsLegalAction ==
    /\ call.op = "none"
    /\ \E direction \in Directions :
          LET r == IsLegalAction(board, direction) IN
          call' = Call("is_legal_action", board, direction, 0, 0, 0, r.raised, r.value)
    /\ UNCHANGED <<board, line, sessionVars>>

CallIsGameOver ==
    /\ call.op = "none"
    /\ LET r == IsGameOver(board) IN
          call' = Call("is_game_over", board, 0, 0, 0, 0, r.raised, r.value)
    /\ UNCHANGED <<board, line, sessionVars>>

\* total_score(moved_board) on the board a preview has returned.  `board` is
\* still the board the preview was made of.
TotalScoreReturned(input, direction, r) ==
    call' = Call("total_score", input, direction, 0, 0, 0, r.raised, r.ret)
CallTotalScore ==
    /\ call.op = "move_board_preview"
    /\ call.raised = "none"
    /\ TotalScoreReturned(call.ret[1], call.direction, TotalScoreCall(call.ret[1]))
    /\ UNCHANGED <<board, line, sessionVars>>

NextBoard ==
    \/ CallMoveBoard
    \/ CallMoveBoardPreview
    \/ CallIsLegalAction
    \/ CallIsGameOver
    \/ CallTotalScore
SpecBoard == InitBoard /\ [][NextBoard]_vars

(***************************************************************************)
(* SpecView: rotated_boards_view read row by row and written cell by cell, *)
(* as _move_board, move_board and move_board_preview use it, on the boards *)
(* of side 1 .. MaxSide whose cells all differ.                            *)
(***************************************************************************)
MaxSide == 4
LabelledBoard(n) == [i \in 1 .. n |-> [j \in 1 .. n |-> (i - 1) * n + j - 1]]

InitView ==
    /\ board \in {LabelledBoard(n) : n \in 1 .. MaxSide}
    /\ line = <<>>
    /\ call = NoCall
    /\ NoSession

\* rotated = rotated_boards_view(board, direction) ; line = rotated[i]
CallViewRead ==
    /\ call.op = "none"
    /\ \E direction \in Directions, i \in 1 .. Side(board) :
          /\ line' = ViewLine(board, direction, i)
          /\ call' = [Call("view_read", board, direction, 0, 0, 0, "none", 0)
                         EXCEPT !.cell = <<i, 0>>]
    /\ UNCHANGED <<board, sessionVars>>

\* rotated = rotated_boards_view(board, direction) ; rotated[i][j] = v
CallViewWrite ==
    /\ call.op = "none"
    /\ \E direction \in Directions, i \in 1 .. Side(board), j \in 1 .. Side(board) :
          /\ board' = ViewSetCell(board, direction, i, j, POSSIBLE_FUTURE_PIECE)
          /\ call' = [Call("view_write", board, direction, POSSIBLE_FUTURE_PIECE,
                           0, 0, "none", 0)
                         EXCEPT !.cell = <<i, j>>]
    /\ UNCHANGED <<line, sessionVars>>

NextView == CallViewRead \/ CallViewWrite
SpecView == InitView /\ [][NextView]_vars

(***************************************************************************)
(* Spec: a ThreesGame session.  Init is the object as __init__ has set it  *)
(* up before it calls reset(); the first call is that reset.  A session    *)
(* gets at most MaxCalls calls of reset and step.                          *)
(***************************************************************************)
MaxCalls == 3
\* high_pieces as __init__ stores it: [] (no pool), [PIECE_768] (play.py passes
\* the single value), a list of two, and [None] (the default argument).
\* The argument high_pieces: a value without __len__, or a list.
ScalarHighPieces == {NONE, PIECE_768}
ListHighPieces == {<<>>, <<PIECE_48, PIECE_768>>}
\* high_pieces if hasattr(high_pieces, "__len__") else [high_pieces]
HighPieceConfigs == {<<v>> : v \in ScalarHighPieces} \cup ListHighPieces

Session ==
    [board |-> board, future_piece |-> future_piece, total_score |-> total_score,
     next_piece_queue |-> next_piece_queue, special_queue |-> special_queue,
     high_pieces |-> high_pieces]
SetSession(s) ==
    /\ board' = s.board
    /\ future_piece' = s.future_piece
    /\ total_score' = s.total_score
    /\ next_piece_queue' = s.next_piece_queue
    /\ special_queue' = s.special_queue
    /\ high_pieces' = s.high_pieces

Init ==
    /\ board = EmptyBoard(BoardSize)
    /\ line = <<>>
    /\ call = NoCall
    /\ future_piece = 0
    /\ total_score = 0
    /\ next_piece_queue = NoQueue
    /\ special_queue = NoQueue
    /\ high_pieces \in HighPieceConfigs
    /\ ncalls = 0
    /\ score_returned = 0

SetOf(seq) == {seq[k] : k \in 1 .. Len(seq)}
Rng(base_shuffle, flag_shuffle, board_shuffle, high_piece, randint, piece, row) ==
    [base_shuffle |-> base_shuffle, flag_shuffle |-> flag_shuffle,
     board_shuffle |-> board_shuffle, high_piece |-> high_piece,
     randint |-> randint, piece |-> piece, row |-> row]

\* What the randomness source can return while choose_future_piece_display
\* runs on session s: <<base_shuffle, flag_shuffle, randint>>, with the current
\* contents for a shuffle that is not made and 0 for a randint that is not
\* asked for.
ShufflesOf(q, outcomes) == IF ShuffleDue(q) THEN outcomes ELSE {q.contents}
SpecialRngs(s, base, fs, m) ==
    IF ~QueueNext(s.special_queue, fs).value THEN {<<bs, fs, 0>> : bs \in base}
    ELSE IF m <= PIECE_24 THEN {<<s.next_piece_queue.contents, fs, 0>>}
    ELSE {<<s.next_piece_queue.contents, fs, ri>> : ri \in PIECE_24 .. m}
DisplayRngsOf(s, base, flags) ==
    IF ~SpecialDrawn(s) THEN {<<bs, s.special_queue.contents, 0>> : bs \in base}
    ELSE UNION {SpecialRngs(s, base, fs, BoardMax(s.board) - 3) : fs \in flags}
DisplayRngs(s) ==
    DisplayRngsOf(s,
        ShufflesOf(s.next_piece_queue, ShuffleOutcomes(s.next_piece_queue.contents)),
        ShufflesOf(s.special_queue, FlagShuffleOutcomes(s.special_queue.contents)))

\* What the randomness source can return during reset().
ResetRngsAt(fresh, ib, bs, sh, hp) ==
    IF hp = NONE THEN {Rng(bs, <<>>, sh, hp, 0, 0, 0)}
    ELSE {Rng(bs, d[2], sh, hp, d[3], 0, 0) :
             d \in DisplayRngs([fresh EXCEPT
                      !.next_piece_queue = ib.queue,
                      !.board = Reshape(IF ib.with_high THEN <<hp>> \o sh ELSE sh,
                                        BoardSize)])}
ResetRngsList(fresh, ib, bs, pool) ==
    UNION {ResetRngsAt(fresh, ib, bs, sh, hp) : sh \in ShuffleOutcomes(ib.list), hp \in pool}
ResetRngsFresh(fresh, pool) ==
    UNION {ResetRngsList(fresh, InitBoardList(fresh, Rng(bs, <<>>, <<>>, 0, 0, 0, 0)),
                         bs, pool)
           : bs \in ShuffleOutcomes(BaseQueueContents)}
ResetRngs(s) ==
    ResetRngsFresh(FreshQueues(s),
                   IF s.high_pieces = <<>> THEN {0} ELSE SetOf(s.high_pieces))

\* What the randomness source can return during step(action).
StepRngsAt(s, mb, piece, row) ==
    IF mb.raised # "none" THEN {Rng(<<>>, <<>>, <<>>, 0, 0, piece, row)}
    ELSE {Rng(d[1], d[2], <<>>, 0, d[3], piece, row) :
             d \in DisplayRngs([s EXCEPT !.board = mb.board])}
StepRngs(s, action) ==
    UNION {StepRngsAt(s, MoveBoard(s.board, action, piece, row), piece, row)
           : piece \in PieceChoices(s.future_piece), row \in RowChoices(s.board, action)}

\* Once reset() has raised, __init__ has failed and there is no object to call.
Live == call.raised # "TypeError"

\* reset() has run: the object has its queues.
Constructed == next_piece_queue # NoQueue

\* The call op(action) made on the session `before` has returned (or raised) r.
Returned(op, before, action, rng, r) ==
    /\ SetSession(r.session)
    /\ call' = Call(op, before, action,
                    IF op = "step" THEN r.piece ELSE 0, rng.row,
                    IF op = "step" THEN r.choice_arg ELSE 0, r.raised,
                    IF op = "step" THEN <<r.score_delta, r.game_over>> ELSE 0)
    /\ score_returned' = IF op = "reset" THEN 0
                         ELSE IF r.raised = "none" THEN score_returned + r.score_delta
                         ELSE score_returned

CallReset ==
    /\ Live
    /\ ncalls < MaxCalls
    /\ \E rng \in ResetRngs(Session) : Returned("reset", <<>>, 0, rng, Reset(Session, rng))
    /\ ncalls' = ncalls + 1
    /\ UNCHANGED line

CallStep ==
    /\ Live
    /\ Constructed
    /\ ncalls < MaxCalls
    /\ \E action \in Directions :
       \E rng \in StepRngs(Session, action) :
           Returned("step", Session, action, rng, Step(Session, action, rng))
    /\ ncalls' = ncalls + 1
    /\ UNCHANGED line

Next == CallReset \/ CallStep
Spec == Init /\ [][Next]_vars

(***************************************************************************)
(* SpecPieces: future_piece_possibilities on every integer of              *)
(* -MaxCode .. MaxCode, held in future_piece.                              *)
(***************************************************************************)
MaxCode == 30

InitPieces ==
    /\ future_piece \in (0 - MaxCode) .. MaxCode
    /\ board = <<>>
    /\ line = <<>>
    /\ call = NoCall
    /\ total_score = 0
    /\ next_piece_queue = NoQueue
    /\ special_queue = NoQueue
    /\ high_pieces = <<>>
    /\ ncalls = 0
    /\ score_returned = 0

CallFuturePiecePossibilities ==
    /\ call.op = "none"
    /\ call' = Call("future_piece_possibilities", future_piece, 0, 0, 0, 0, "none",
                    FuturePiecePossibilities(future_piece))
    /\ UNCHANGED <<board, line, sessionVars>>

NextPieces == CallFuturePiecePossibilities
SpecPieces == InitPieces /\ [][NextPieces]_vars

(***************************************************************************)
(* SpecQueue: a randomized_order_iter built from a list of 1 .. MaxItems   *)
(* items, two of which may be equal, and drawn from MaxPasses passes and   *)
(* one draw more.  The queue is held in next_piece_queue, the items drawn  *)
(* so far in line, the list the queue was built from in call.before.       *)
(* rand.shuffle can leave the list in any order.                           *)
(***************************************************************************)
MaxItems == 3
MaxPasses == 2
QueueItems == {PIECE_1, PIECE_2, PIECE_3}

Permuted(s) == {[k \in 1 .. Len(s) |-> s[p[k]]] : p \in Permutations(1 .. Len(s))}

InitQueue ==
    /\ \E n \in 1 .. MaxItems : \E contents \in [1 .. n -> QueueItems] :
           /\ next_piece_queue = NewQueue(contents)
           /\ call = Call("randomized_order_iter", contents, 0, 0, 0, 0, "none", 0)
    /\ line = <<>>
    /\ board = <<>>
    /\ future_piece = 0
    /\ total_score = 0
    /\ special_queue = NoQueue
    /\ high_pieces = <<>>
    /\ ncalls = 0
    /\ score_returned = 0

\* next(it): choice_arg is the length of the list rand.shuffle was called with
\* (0: it was not called), ret the item returned.
NextReturned(shuffle_due, r) ==
    /\ next_piece_queue' = r.queue
    /\ line' = Append(line, r.value)
    /\ call' = Call("next", call.before, 0, 0, 0,
                    IF shuffle_due THEN Len(r.queue.contents) ELSE 0, "none", r.value)
CallQueueNext ==
    /\ call.op \in {"randomized_order_iter", "next"}
    /\ Len(line) < MaxPasses * Len(next_piece_queue.contents) + 1
    /\ \E shuffled \in ShufflesOf(next_piece_queue, Permuted(next_piece_queue.contents)) :
           NextReturned(ShuffleDue(next_piece_queue), QueueNext(next_piece_queue, shuffled))
    /\ UNCHANGED <<board, future_piece, total_score, special_queue, high_pieces, ncalls,
                   score_returned>>

NextQueue == CallQueueNext
SpecQueue == InitQueue /\ [][NextQueue]_vars

(***************************************************************************)
(* network_common.py: onehot_encode.  An array is its shape and its data   *)
(* in row-major order, which is what reshape(-1) gives; the output is held *)
(* as flattened_output, one group of num_values entries per input element. *)
(***************************************************************************)
\* _ARANGE = np.arange(4096): len(_ARANGE)
ARANGE_LEN == 4096

Min(a, b) == IF a < b THEN a ELSE b
\* np.zeros(output_shape).reshape((-1, num_values))
ZeroGroups(n, num_values) == [k \in 1 .. n |-> [v \in 1 .. num_values |-> 0]]
\* A fault: output_region = flattened_output[0 : l], whatever start is.
EncodeRegion_FromZero(data, out, start, l) ==
    [k \in 1 .. Len(out) |->
        IF k <= l THEN [out[k] EXCEPT ![data[start + k] + 1] = 1] ELSE out[k]]
\* output_region = flattened_output[start : start + l]
\* output_region[_ARANGE[:l], flattened_data[start : start + l]] = 1
EncodeRegion(data, out, start, l) ==
    [k \in 1 .. Len(out) |->
        IF start < k /\ k <= start + l THEN [out[k] EXCEPT ![data[k] + 1] = 1]
        ELSE out[k]]
\* for start in range(0, len(flattened_data), len(_ARANGE))
RECURSIVE EncodeFrom(_, _, _)
EncodeFrom(data, out, start) ==
    IF start >= Len(data) THEN out
    ELSE EncodeFrom(data,
                    EncodeRegion(data, out, start, Min(ARANGE_LEN, Len(data) - start)),
                    start + ARANGE_LEN)
OutputShape(shape, num_values, new_axis) ==
    IF new_axis THEN shape \o <<num_values>>
    ELSE SubSeq(shape, 1, Len(shape) - 1) \o <<shape[Len(shape)] * num_values>>
OnehotEncode(input, num_values, new_axis) ==
    [shape |-> OutputShape(input.shape, num_values, new_axis),
     groups |-> EncodeFrom(input.data, ZeroGroups(Len(input.data), num_values), 0)]

(***************************************************************************)
(* SpecOnehot: onehot_encode on every array of 1 .. MaxElements elements   *)
(* of 0 .. MaxValues - 1, in each of its shapes of one or two axes, and on *)
(* arrays of one chunk, one element more, and two chunks and one element   *)
(* more.  The array is held in line.                                       *)
(***************************************************************************)
MaxElements == 3
MaxValues == 3

ShapesOf(n) == {<<n>>} \cup {<<a, n \div a>> : a \in {b \in 1 .. n : n % b = 0}}
LargeLengths == {ARANGE_LEN, ARANGE_LEN + 1, 2 * ARANGE_LEN + 1}
LargeData(n) == [k \in 1 .. n |-> (k * k) % MaxValues]

\* The values of num_values that hold every element: an element outside
\* [0, num_values) is no index of the last axis.
NumValuesFor(data) ==
    {num_values \in 1 .. MaxValues : \A k \in 1 .. Len(data) : data[k] < num_values}

InitOnehot ==
    /\ \/ \E n \in 1 .. MaxElements : \E data \in [1 .. n -> 0 .. (MaxValues - 1)] :
             \E shape \in ShapesOf(n) : line = [shape |-> shape, data |-> data]
       \/ \E n \in LargeLengths : line = [shape |-> <<n>>, data |-> LargeData(n)]
    /\ board = <<>>
    /\ call = NoCall
    /\ NoSession

OnehotReturned(input, num_values, new_axis, output) ==
    call' = Call("onehot_encode", input, 0, 0, 0, 0, "none", output)
                @@ [num_values |-> num_values, new_axis |-> new_axis]
CallOnehotEncode ==
    /\ call.op = "none"
    /\ \E num_values \in NumValuesFor(line.data), new_axis \in BOOLEAN :
           OnehotReturned(line, num_values, new_axis,
                          OnehotEncode(line, num_values, new_axis))
    /\ UNCHANGED <<line, board, sessionVars>>

NextOnehot == CallOnehotEncode
SpecOnehot == InitOnehot /\ [][NextOnehot]_vars

(***************************************************************************)
(* SpecGames: the sessions of Spec, and sessions picked up in the middle   *)
(* of a game without a pool of high pieces.  In such a game the tiles      *)
(* placed so far are a prefix of the base queue's passes, a 1 and a 2      *)
(* leave the board only together, and total_score is the score of the      *)
(* board less 3 for every 3 that was placed.                               *)
(*   MidGameMerge: 31 tiles placed (eleven 1s, twelve 2s, eight 3s), the   *)
(*   32nd on display; the maximum is PIECE_24 and a move LEFT or RIGHT     *)
(*   merges the two 24s into the first PIECE_48.  The special queue has    *)
(*   never been drawn from.                                                *)
(*   MidGameLast: 34 tiles placed (twelve 1s, eleven 2s, eleven 3s), the   *)
(*   35th on display; the move LEFT fills the last empty cell and leaves   *)
(*   no legal move.                                                        *)
(***************************************************************************)
MidGameMerge ==
    [board |-> <<<<6, 6, 3, 2>>, <<3, 1, 0, 0>>, <<2, 0, 0, 0>>, <<0, 0, 0, 0>>>>,
     future_piece |-> PIECE_3,
     total_score |-> 144,
     next_piece_queue |-> [contents |-> <<2, 1, 2, 1, 2, 1, 2, 3, 1, 3, 3, 3>>, pos |-> 7],
     special_queue |-> NewQueue(SpecialQueueContents),
     high_pieces |-> <<>>]
MidGameLast ==
    [board |-> <<<<3, 4, 3, 4>>, <<4, 3, 4, 3>>, <<1, 4, 3, 4>>, <<0, 4, 3, 4>>>>,
     future_piece |-> PIECE_2,
     total_score |-> 57,
     next_piece_queue |-> [contents |-> BaseQueueContents, pos |-> 10],
     special_queue |-> NewQueue(SpecialQueueContents),
     high_pieces |-> <<>>]
\* MidGameColumns: 33 tiles placed (twelve 1s, eleven 2s, ten 3s), the tenth
\* item of the third pass on display; a move LEFT fills the board, whose rows
\* are then stuck while its second column still has a merge.
MidGameColumns ==
    [board |-> <<<<3, 4, 3, 4>>, <<4, 3, 4, 3>>, <<1, 4, 3, 4>>, <<0, 3, 4, 3>>>>,
     future_piece |-> PIECE_2,
     total_score |-> 54,
     next_piece_queue |-> [contents |-> <<1, 2, 3, 1, 2, 3, 1, 2, 1, 2, 3, 3>>, pos |-> 9],
     special_queue |-> NewQueue(SpecialQueueContents),
     high_pieces |-> <<>>]
MidSessions == {MidGameMerge, MidGameLast, MidGameColumns}

IsSession(s) ==
    /\ board = s.board
    /\ future_piece = s.future_piece
    /\ total_score = s.total_score
    /\ next_piece_queue = s.next_piece_queue
    /\ special_queue = s.special_queue
    /\ high_pieces = s.high_pieces
InitMid ==
    /\ \E s \in MidSessions : IsSession(s)
    /\ line = <<>>
    /\ call = NoCall
    /\ ncalls = 0
    /\ score_returned = total_score
\* ThreesGame(high_pieces=PIECE_12288): the games that start with the top piece.
InitTop ==
    /\ board = EmptyBoard(BoardSize)
    /\ line = <<>>
    /\ call = NoCall
    /\ future_piece = 0
    /\ total_score = 0
    /\ next_piece_queue = NoQueue
    /\ special_queue = NoQueue
    /\ high_pieces = <<PIECE_12288>>
    /\ ncalls = 0
    /\ score_returned = 0
InitGames == Init \/ InitMid \/ InitTop
SpecGames == InitGames /\ [][Next]_vars

(***************************************************************************)
(* SpecPlay: play.py, the interactive loop on ThreesGame(high_pieces =      *)
(* PIECE_768).  The session fields are `game`, score_returned is `score`,  *)
(* ncalls is `n_moves`, line is the list `saved` of pickled snapshots, and *)
(* call is the last key handled, with ret = <<delta, game_over>>.  Two     *)
(* fields of call are history and no variable of the program: undoable is  *)
(* the list of the snapshots taken before the successful moves that have   *)
(* not been undone, each with the length `at` the list saved had once it   *)
(* was appended, and undoable_before the same list before the last key.    *)
(* Direction keys are handled while fewer than MaxSaved snapshots are      *)
(* saved.                                                                  *)
(***************************************************************************)
MaxSaved == 2
\* if len(saved) > 1000: saved = saved[10:]
SAVED_LIMIT == 1000
SAVED_DROPPED == 10

\* pickle.dumps((game, score, n_moves), protocol=4)
Snapshot == [game |-> Session, score |-> score_returned, n_moves |-> ncalls]
Pushed(saved, snapshot) ==
    IF Len(saved) + 1 > SAVED_LIMIT
    THEN SubSeq(Append(saved, snapshot), SAVED_DROPPED + 1, Len(saved) + 1)
    ELSE Append(saved, snapshot)
Front(s) == SubSeq(s, 1, Len(s) - 1)
Last(s) == s[Len(s)]

PlayCall(op, before, action, piece, row, choice_arg, raised, ret, undoable) ==
    Call(op, before, action, piece, row, choice_arg, raised, ret)
        @@ [undoable |-> undoable, undoable_before |-> call.undoable]

\* game = game_play.Env(**kwargs) ; saved = []
InitPlay ==
    /\ board = EmptyBoard(BoardSize)
    /\ line = <<>>
    /\ call = NoCall @@ [undoable |-> <<>>, undoable_before |-> <<>>]
    /\ future_piece = 0
    /\ total_score = 0
    /\ next_piece_queue = NoQueue
    /\ special_queue = NoQueue
    /\ high_pieces = <<PIECE_768>>
    /\ ncalls = 0
    /\ score_returned = 0

\* The inner loop is waiting for a key.
Playing == IF call.op = "none" THEN FALSE ELSE ~call.ret[2]

\* The head of the outer loop: score = delta = 0, n_moves = 0, game_over =
\* False, state = game.reset().  The first time it follows the reset() that
\* __init__ made.
PlayResetReturned(rng, r) ==
    /\ SetSession(r.session)
    /\ score_returned' = 0
    /\ ncalls' = 0
    /\ call' = PlayCall("reset", Snapshot, 0, 0, rng.row, 0, r.raised, <<0, FALSE>>,
                        call.undoable)
PlayReset ==
    /\ IF call.op = "none" THEN TRUE ELSE call.ret[2]
    /\ \E rng \in ResetRngs(Session) : PlayResetReturned(rng, Reset(Session, rng))
    /\ UNCHANGED line

\* A key of KEYS_TO_ACTION: the snapshot is appended, then game.step(action)
\* returns r or raises IllegalMoveError.
PlayStepReturned(action, rng, r) ==
    /\ SetSession(r.session)
    /\ score_returned' = IF r.raised = "none" THEN score_returned + r.score_delta
                         ELSE score_returned
    /\ ncalls' = IF r.raised = "none" THEN ncalls + 1 ELSE ncalls
    /\ line' = Pushed(line, Snapshot)
    /\ call' = PlayCall("step", Snapshot, action, r.piece, rng.row, r.choice_arg,
                        r.raised,
                        IF r.raised = "none" THEN <<r.score_delta, r.game_over>>
                        ELSE call.ret,
                        IF r.raised = "none"
                        THEN Append(call.undoable,
                                    [snapshot |-> Snapshot,
                                     at |-> Len(Pushed(line, Snapshot))])
                        ELSE call.undoable)
KeyDirection ==
    /\ Playing
    /\ Len(line) < MaxSaved
    /\ \E action \in Directions :
       \E rng \in StepRngs(Session, action) :
           /\ Step(Session, action, rng).raised \in {"none", "IllegalMoveError"}
           /\ PlayStepReturned(action, rng, Step(Session, action, rng))

\* BACKSPACE: (game, score, n_moves) = pickle.loads(saved.pop(-1)), or "No
\* data to restore".
Restored(snapshot) ==
    /\ SetSession(snapshot.game)
    /\ score_returned' = snapshot.score
    /\ ncalls' = snapshot.n_moves
    /\ line' = Front(line)
\* The moves not undone once the last of n saved snapshots is restored.
StillUndoable(undoable, n) ==
    IF undoable = <<>> THEN <<>>
    ELSE IF Last(undoable).at = n THEN Front(undoable)
    ELSE undoable
KeyBackspace ==
    /\ Playing
    /\ IF line = <<>>
       THEN UNCHANGED <<line, board, sessionVars>>
       ELSE Restored(Last(line))
    /\ call' = PlayCall("BACKSPACE", Snapshot, 0, 0, 0, 0, "none", call.ret,
                        StillUndoable(call.undoable, Len(line)))

NextPlay == PlayReset \/ KeyDirection \/ KeyBackspace
SpecPlay == InitPlay /\ [][NextPlay]_vars

(***************************************************************************)
(* SpecDisplay: sessions in which choose_future_piece_display is also      *)
(* called on its own, up to MaxChoices display choices after a reset.      *)
(* line is the list of the display choices made since the last reset (or   *)
(* since the session was picked up): the board maximum each was made on,   *)
(* and whether it drew from the base-tile queue.  A step is taken as the   *)
(* first call on a session picked up in the middle of a game; the steps    *)
(* after a reset are those of Spec and SpecGames.                          *)
(***************************************************************************)
MaxChoices == 43

InitDisplay ==
    \/ /\ Init
       /\ high_pieces \in ListHighPieces
    \/ InitMid

\* The position of the base-tile queue when reset() reaches its display choice.
BasePosAfterInitBoard(s) ==
    INITIAL_PIECES_IN_BOARD - (IF s.high_pieces # <<>> THEN 1 ELSE 0) - 1
DisplayChoice(pos_before, after) ==
    [max |-> BoardMax(after.board),
     base_drawn |-> after.next_piece_queue.pos # pos_before]
ChoicesAfter(op, pos_before, r) ==
    IF r.raised # "none" THEN line
    ELSE Append(IF op = "reset" THEN <<>> ELSE line, DisplayChoice(pos_before, r.session))
ReturnedChoice(op, before, action, rng, r, pos_before) ==
    /\ Returned(op, before, action, rng, r)
    /\ line' = ChoicesAfter(op, pos_before, r)

DisplayReset ==
    /\ Live
    /\ ncalls < MaxCalls
    /\ \E rng \in ResetRngs(Session) :
           ReturnedChoice("reset", <<>>, 0, rng, Reset(Session, rng),
                          BasePosAfterInitBoard(Session))
    /\ ncalls' = ncalls + 1

DisplayStep ==
    /\ Live
    /\ Constructed
    /\ ncalls = 0
    /\ \E action \in Directions :
       \E rng \in StepRngs(Session, action) :
           ReturnedChoice("step", Session, action, rng, Step(Session, action, rng),
                          next_piece_queue.pos)
    /\ ncalls' = ncalls + 1

\* game.choose_future_piece_display(), with what the randomness source returns
\* in d = <<base_shuffle, flag_shuffle, randint>>.
DisplayChosen(s, rng) ==
    [session |-> ChooseFuturePieceDisplay(s, rng), raised |-> "none", score_delta |-> 0]
DisplayRng(d) == Rng(d[1], d[2], <<>>, 0, d[3], 0, 0)
CallChooseFuturePieceDisplay ==
    /\ Live
    /\ Constructed
    /\ Len(line) < MaxChoices
    /\ \E d \in DisplayRngs(Session) :
           ReturnedChoice("choose_future_piece_display", Session, 0, DisplayRng(d),
                          DisplayChosen(Session, DisplayRng(d)), next_piece_queue.pos)
    /\ UNCHANGED ncalls

NextDisplay == DisplayReset \/ DisplayStep \/ CallChooseFuturePieceDisplay
SpecDisplay == InitDisplay /\ [][NextDisplay]_vars

(***************************************************************************)
(* Claims about move_line_left (SpecLine)                                  *)
(***************************************************************************)
\* The three events of a collapse, as the claims word them.
EmptyThenTile(b, p) == b[p] = EMPTY_SPACE /\ b[p + 1] # EMPTY_SPACE
OneAndTwo(b, p) == {b[p], b[p + 1]} = {PIECE_1, PIECE_2}
EqualPair(b, p) == b[p] = b[p + 1] /\ b[p] >= PIECE_3
EventAt(b, p) == EmptyThenTile(b, p) \/ OneAndTwo(b, p) \/ EqualPair(b, p)
EventPositions(b) == {p \in 1 .. Len(b) - 1 : EventAt(b, p)}
HasEvent(b) == EventPositions(b) # {}
FirstEvent(b) == CHOOSE p \in EventPositions(b) : \A q \in EventPositions(b) : p <= q

\* The line after the single event at position p.
NewCell(b, p) ==
    IF EmptyThenTile(b, p) THEN b[p + 1]
    ELSE IF OneAndTwo(b, p) THEN PIECE_3
    ELSE b[p] + 1
AfterEvent(b, p) ==
    [q \in 1 .. Len(b) |->
        IF q < p THEN b[q]
        ELSE IF q = p THEN NewCell(b, p)
        ELSE IF q < Len(b) THEN b[q + 1]
        ELSE EMPTY_SPACE]
\* The first event merges two MAX_PIECE tiles.
MaxPairFirst(b) == HasEvent(b) /\ b[FirstEvent(b)] = MAX_PIECE /\ EqualPair(b, FirstEvent(b))

\* C3: move_line_left applies exactly one event, at the smallest position where
\* an empty cell precedes a tile, a 1 meets a 2, or two equal codes >= 3 meet:
\* the cells before it are unchanged, the cell becomes the right neighbour, 3 or
\* code + 1, the rest is shifted left by one and the last cell becomes empty.
C3_FirstEventApplied ==
    (call.op = "move_line_left" /\ HasEvent(call.before)) =>
        /\ call.raised = "none"
        /\ line = AfterEvent(call.before, FirstEvent(call.before))

\* C3 on the lines whose first event is not a merge of two MAX_PIECE tiles.
C3_FirstEventApplied_BelowMax ==
    (call.op = "move_line_left" /\ HasEvent(call.before) /\ ~MaxPairFirst(call.before)) =>
        /\ call.raised = "none"
        /\ line = AfterEvent(call.before, FirstEvent(call.before))

\* C4: move_line_left reports moved = false exactly when no adjacent pair is an
\* event, and then returns delta 0 and leaves the line unchanged.
C4_NotMovedIffNoEvent ==
    call.op = "move_line_left" =>
        /\ (call.raised = "none" /\ call.ret[1] = FALSE) <=> ~HasEvent(call.before)
        /\ ~HasEvent(call.before) => (call.ret[2] = 0 /\ line = call.before)

C4_Samples == {<<2, 2, 4, 3>>, <<4, 1, 1, 3>>, <<2, 4, 2, 4>>, <<2, 3, 1, 4>>}
C4_Witness ==
    /\ call.op = "move_line_left"
    /\ call.before = <<2, 2, 4, 3>>
    /\ call.ret = <<FALSE, 0>>
    /\ line = <<2, 2, 4, 3>>
    /\ \A s \in C4_Samples : ~HasEvent(s) /\ ~HasEvent(Reversed(s))

\* C5: for every line of valid piece codes the score delta move_line_left returns
\* is total_score(line after) - total_score(line before).
C5_DeltaIsScoreDifference ==
    call.op = "move_line_left" =>
        /\ call.raised = "none"
        /\ call.ret[2] = TotalScoreLine(line) - TotalScoreLine(call.before)

\* C5 on the lines whose first event is not a merge of two MAX_PIECE tiles.
C5_DeltaIsScoreDifference_BelowMax ==
    (call.op = "move_line_left" /\ ~MaxPairFirst(call.before)) =>
        /\ call.raised = "none"
        /\ call.ret[2] = TotalScoreLine(line) - TotalScoreLine(call.before)

\* C6: with do_move = false, and so in is_line_movable_left, no cell of the line
\* changes and the call returns (or raises) what the mutating call does on an
\* equal line.
C6_NoMoveIsPure ==
    LET m == MoveLineLeft(call.before, TRUE) IN
    /\ call.op = "move_line_left_no_move" =>
        /\ line = call.before
        /\ call.raised = m.raised
        /\ call.ret = <<m.moved, m.score_delta>>
    /\ call.op = "is_line_movable_left" =>
        /\ line = call.before
        /\ call.raised = m.raised
        /\ call.ret = m.moved

C6_Witness ==
    /\ call.op = "is_line_movable_left"
    /\ call.before = <<0, 1, 2, 3>>
    /\ call.ret = TRUE
    /\ line = <<0, 1, 2, 3>>
    /\ MoveLineLeft(call.before, TRUE).line = <<1, 2, 3, 0>>

(***************************************************************************)
(* Claims about the board functions (SpecBoard)                            *)
(***************************************************************************)
\* The lines a move in a direction collapses, as the claims word them: line i
\* is row i read left-to-right (LEFT) or right-to-left (RIGHT), or column i
\* read top-to-bottom (UP) or bottom-to-top (DOWN).  LineCell gives the board
\* cell that is the q-th cell of line i.
LineCell(n, direction, i, q) ==
    IF direction = DIRECTION_LEFT THEN <<i, q>>
    ELSE IF direction = DIRECTION_RIGHT THEN <<i, n + 1 - q>>
    ELSE IF direction = DIRECTION_UP THEN <<q, i>>
    ELSE <<n + 1 - q, i>>
\* The line and the position in it of board cell <<r, c>>: the <<i, q>> with
\* LineCell(n, direction, i, q) = <<r, c>>.
LineIndex(n, direction, r, c) ==
    IF direction = DIRECTION_LEFT THEN <<r, c>>
    ELSE IF direction = DIRECTION_RIGHT THEN <<r, n + 1 - c>>
    ELSE IF direction = DIRECTION_UP THEN <<c, r>>
    ELSE <<c, n + 1 - r>>
LineToward(b, direction, i) ==
    [q \in 1 .. Len(b) |->
        LET rc == LineCell(Len(b), direction, i, q) IN b[rc[1]][rc[2]]]
MovableLines(b, direction) ==
    {i \in 1 .. Len(b) : HasEvent(LineToward(b, direction, i))}
SomeMaxPairFirst(b, direction) ==
    \E i \in 1 .. Len(b) : MaxPairFirst(LineToward(b, direction, i))

\* The board with every movable line collapsed once, the other lines unchanged
\* and the last cell of line `target` holding `piece` (target 0: no piece).
CollapsedBoard(b, direction, target, piece) ==
    [r \in 1 .. Len(b) |-> [c \in 1 .. Len(b) |->
        LET iq == LineIndex(Len(b), direction, r, c)
            ln == LineToward(b, direction, iq[1])
        IN  IF ~HasEvent(ln) THEN b[r][c]
            ELSE IF iq[2] = Len(b) /\ iq[1] = target THEN piece
            ELSE AfterEvent(ln, FirstEvent(ln))[iq[2]]]]
ExpectedBoards(b, direction, piece) ==
    {CollapsedBoard(b, direction, t, piece) : t \in MovableLines(b, direction)}

\* C1: when no line of the reoriented view is movable, move_board raises
\* IllegalMove and the board is cell for cell what it was before the call.
C1_IllegalMoveLeavesBoard ==
    (call.op = "move_board" /\ MovableLines(call.before, call.direction) = {}) =>
        /\ call.raised = "IllegalMoveError"
        /\ board = call.before

C1_Witness ==
    /\ call.op = "move_board"
    /\ call.before = SAMPLE_BOARD
    /\ call.direction = DIRECTION_UP
    /\ call.raised = "IllegalMoveError"
    /\ board = SAMPLE_BOARD
    /\ MoveBoard(EmptyBoard(4), DIRECTION_LEFT, PIECE_1, 0).raised = "IllegalMoveError"

\* C2: with k >= 1 movable lines move_board asks the randomness source to
\* choose among exactly k values, and over the choices 0 .. k - 1 it produces, as
\* a set, exactly the k boards that have every movable line collapsed once, the
\* other lines unchanged and piece_to_add in the last cell of one moved line.
C2_Holds(b, direction, piece, k) ==
    /\ call.raised = "none"
    /\ call.choice_arg = k
    /\ board \in ExpectedBoards(b, direction, piece)
    /\ {MoveBoard(b, direction, piece, c).board : c \in 0 .. k - 1}
           = ExpectedBoards(b, direction, piece)
    /\ Cardinality(ExpectedBoards(b, direction, piece)) = k

C2_AllChoicesAllBoards ==
    LET k == Cardinality(MovableLines(call.before, call.direction)) IN
    (call.op = "move_board" /\ k >= 1) =>
        C2_Holds(call.before, call.direction, call.piece_to_add, k)

\* C2 on the boards none of whose lines starts with a merge of two MAX_PIECE.
C2_AllChoicesAllBoards_BelowMax ==
    LET k == Cardinality(MovableLines(call.before, call.direction)) IN
    (call.op = "move_board" /\ k >= 1
        /\ ~SomeMaxPairFirst(call.before, call.direction)) =>
        C2_Holds(call.before, call.direction, call.piece_to_add, k)

\* C8: is_game_over is true when MAX_PIECE is on the board, even if a direction
\* is still legal; otherwise it is true exactly when is_legal_action is false
\* for all four directions.
C8_GameOver ==
    call.op = "is_game_over" =>
        /\ call.raised = "none"
        /\ BoardContains(call.before, MAX_PIECE) => call.ret = TRUE
        /\ ~BoardContains(call.before, MAX_PIECE) =>
              (call.ret = TRUE <=>
                  \A d \in Directions :
                      IsLegalAction(call.before, d) = [raised |-> "none", value |-> FALSE])

C8_Witness ==
    /\ call.op = "is_game_over"
    /\ BoardContains(call.before, MAX_PIECE)
    /\ call.ret = TRUE
    /\ \E d \in Directions :
          IsLegalAction(call.before, d) = [raised |-> "none", value |-> TRUE]

\* The other two cases of C8: a blocked board and a playable one.
C8_WitnessBlocked ==
    /\ call.op = "is_game_over"
    /\ ~BoardContains(call.before, MAX_PIECE)
    /\ call.ret = TRUE
    /\ Side(call.before) = 3
C8_WitnessPlayable ==
    /\ call.op = "is_game_over"
    /\ ~BoardContains(call.before, MAX_PIECE)
    /\ call.ret = FALSE

\* C9: is_legal_action is true exactly when some line of the reoriented board is
\* movable left, which is exactly when move_board and move_board_preview do not
\* raise IllegalMove.
C9_LegalIffMovableIffNoIllegalMove ==
    LET some == MovableLines(call.before, call.direction) # {} IN
    /\ call.op = "is_legal_action" => ((call.raised = "none" /\ call.ret = TRUE) <=> some)
    /\ call.op \in {"move_board", "move_board_preview"} =>
          (call.raised # "IllegalMoveError" <=> some)

C9_Holds ==
    LET some == MovableLines(call.before, call.direction) # {} IN
    /\ call.op = "is_legal_action" => ((call.raised = "none" /\ call.ret = TRUE) <=> some)
    /\ call.op \in {"move_board", "move_board_preview"} =>
          /\ call.raised = "none" <=> some
          /\ call.raised # "none" => call.raised = "IllegalMoveError"

\* C9 on the boards none of whose lines starts with a merge of two MAX_PIECE.
C9_LegalIffMovable_BelowMax ==
    SomeMaxPairFirst(call.before, call.direction) \/ C9_Holds

\* The preview of a move: every movable line collapsed once, the other lines
\* unchanged, and the sentinel in the last cell of every moved line.
PreviewBoard(b, direction) ==
    [r \in 1 .. Len(b) |-> [c \in 1 .. Len(b) |->
        LET iq == LineIndex(Len(b), direction, r, c)
            ln == LineToward(b, direction, iq[1])
        IN  IF ~HasEvent(ln) THEN b[r][c]
            ELSE IF iq[2] = Len(b) THEN POSSIBLE_FUTURE_PIECE
            ELSE AfterEvent(ln, FirstEvent(ln))[iq[2]]]]
SentinelCells(b) == {x \in Cells(Len(b)) : b[x[1]][x[2]] = POSSIBLE_FUTURE_PIECE}
LastCells(b, direction) ==
    {LineCell(Len(b), direction, i, Len(b)) : i \in MovableLines(b, direction)}
C11_PreviewOf(b, direction) ==
    /\ call.raised = "none"
    /\ call.ret[1] = PreviewBoard(b, direction)
    /\ SentinelCells(call.ret[1]) = LastCells(b, direction)
    /\ Cardinality(SentinelCells(call.ret[1])) = Cardinality(MovableLines(b, direction))
    /\ Cardinality(SentinelCells(call.ret[1])) >= 1
    /\ \A piece \in PiecesToAdd : \A c \in RowChoices(b, direction) :
           /\ MoveBoard(b, direction, piece, c).raised = "none"
           /\ MoveBoard(b, direction, piece, c).ret = call.ret[2]

\* C11: move_board_preview never modifies its input board; for a legal direction
\* it returns a new board equal to the input with every movable line collapsed
\* once and the preview sentinel in the last cell of every moved line and in no
\* other cell, together with the score delta move_board returns for that board
\* and direction.
C11_PreviewLeavesInputMarksMoved ==
    call.op = "move_board_preview" =>
        /\ board = call.before
        /\ MovableLines(call.before, call.direction) # {} =>
               C11_PreviewOf(call.before, call.direction)

\* C11 on the boards none of whose lines starts with a merge of two MAX_PIECE.
C11_Preview_BelowMax ==
    (call.op = "move_board_preview" /\ ~SomeMaxPairFirst(call.before, call.direction)) =>
        /\ board = call.before
        /\ MovableLines(call.before, call.direction) # {} =>
               C11_PreviewOf(call.before, call.direction)

\* The value of a tile code, and the sum of the values of the cells of a board
\* that are not negative.
TileValue(c) == IF c < PIECE_3 THEN 0 ELSE 3 ^ (c - 2)
CellValue(c) == IF c >= 0 THEN TileValue(c) ELSE 0
RECURSIVE SumValues(_, _, _)
SumValues(b, i, j) ==
    IF i > Len(b) THEN 0
    ELSE IF j > Len(b) THEN SumValues(b, i + 1, 1)
    ELSE CellValue(b[i][j]) + SumValues(b, i, j + 1)
BoardValue(b) == SumValues(b, 1, 1)
RECURSIVE SumLineDeltas(_, _, _)
SumLineDeltas(b, direction, i) ==
    IF i > Len(b) THEN 0
    ELSE MoveLineLeft(LineToward(b, direction, i), TRUE).score_delta
             + SumLineDeltas(b, direction, i + 1)

\* Whatever tile move_board places and whichever moved line receives it, the
\* delta it returns is `delta`; r is what _move_board has returned, so that
\* PlacePiece(r, direction, piece, c) is MoveBoard(b, direction, piece, c).
SameDeltaForEveryTile(r, direction, delta) ==
    \A piece \in PiecesToAdd : \A c \in RowIndexes(r) :
        PlacePiece(r, direction, piece, c).ret = delta

\* C12: the score delta a successful move_board returns is the sum of the
\* per-line deltas and equals total_score(collapsed board with sentinels or
\* empty cells in the new-tile slots) - total_score(board before); it depends
\* neither on the moved line that receives the new tile nor on the tile's value;
\* total_score ignores the sentinel cells instead of failing.
C12_DeltaIsBoardScoreDifference ==
    /\ (call.op = "move_board" /\ call.raised = "none") =>
          /\ call.ret = SumLineDeltas(call.before, call.direction, 1)
          /\ call.ret = BoardValue(PreviewBoard(call.before, call.direction))
                            - BoardValue(call.before)
          /\ call.ret = BoardValue(CollapsedBoard(call.before, call.direction, 0, 0))
                            - BoardValue(call.before)
          /\ SameDeltaForEveryTile(InnerMoveBoard(call.before, call.direction),
                                   call.direction, call.ret)
    /\ call.op = "total_score" =>
          /\ call.raised = "none"
          /\ call.ret = BoardValue(call.before)
          /\ SameDeltaForEveryTile(InnerMoveBoard(board, call.direction), call.direction,
                                   call.ret - TotalScoreCall(board).ret)

\* total_score of a preview with two sentinels, after two merges of 3 and 3.
C12_Witness ==
    /\ call.op = "total_score"
    /\ board = <<<<3, 3>>, <<3, 3>>>>
    /\ call.before = <<<<4, POSSIBLE_FUTURE_PIECE>>, <<4, POSSIBLE_FUTURE_PIECE>>>>
    /\ call.ret = 18
    /\ MoveBoard(board, call.direction, PIECE_1, 1).ret = 6

(***************************************************************************)
(* Claims about rotated_boards_view (SpecView)                             *)
(***************************************************************************)
LinesToward(b, direction) == {LineToward(b, direction, t) : t \in 1 .. Len(b)}
ViewLines(b, direction) == {ViewLine(b, direction, i) : i \in 1 .. Len(b)}

\* C10: the lines of the reoriented view are exactly the rows read left-to-right
\* (LEFT) or right-to-left (RIGHT) or the columns read top-to-bottom (UP) or
\* bottom-to-top (DOWN), and a write to a cell of the view changes exactly the
\* corresponding cell of the board and no other.
C10_ViewLinesAndAliasing ==
    /\ call.op = "view_read" =>
          /\ line \in LinesToward(call.before, call.direction)
          /\ ViewLines(call.before, call.direction)
                 = LinesToward(call.before, call.direction)
          /\ board = call.before
    /\ call.op = "view_write" =>
          \E t \in 1 .. Len(call.before) :
              LET rc == LineCell(Len(call.before), call.direction, t, call.cell[2]) IN
              /\ ViewLine(call.before, call.direction, call.cell[1])
                     = LineToward(call.before, call.direction, t)
              /\ board[rc[1]][rc[2]] = call.piece_to_add
              /\ \A x \in Cells(Len(board)) :
                     x # rc => board[x[1]][x[2]] = call.before[x[1]][x[2]]

\* A write through the last cell of the first row of the view for UP lands in
\* the bottom cell of the last column.
C10_Witness ==
    /\ call.op = "view_write"
    /\ call.direction = DIRECTION_UP
    /\ call.cell = <<1, 3>>
    /\ call.before = LabelledBoard(3)
    /\ board = <<<<0, 1, 2>>, <<3, 4, 5>>, <<6, 7, POSSIBLE_FUTURE_PIECE>>>>

(***************************************************************************)
(* Claims about the session (Spec)                                         *)
(***************************************************************************)
\* C7: a step in a direction that is not legal fails with IllegalMove and leaves
\* the board, the future-piece display value, the total score and the cursors
\* of both draw queues as they were before the step.
C7_IllegalStepLeavesSession ==
    (call.op = "step" /\ MovableLines(call.before.board, call.direction) = {}) =>
        /\ call.raised = "IllegalMoveError"
        /\ board = call.before.board
        /\ future_piece = call.before.future_piece
        /\ total_score = call.before.total_score
        /\ next_piece_queue.pos = call.before.next_piece_queue.pos
        /\ special_queue.pos = call.before.special_queue.pos

\* An illegal step on a session whose display value stands for several pieces,
\* so that choose_piece_to_add has asked the randomness source before the move
\* failed.
C7_Witness ==
    /\ call.op = "step"
    /\ call.raised = "IllegalMoveError"
    /\ MovableLines(call.before.board, call.direction) = {}
    /\ Len(FuturePiecePossibilities(future_piece)) > 1
    /\ board # EmptyBoard(BoardSize)

\* The candidate set a display value d stands for, as the claims word it.
Candidates(d) ==
    IF d <= PIECE_6 THEN {d}
    ELSE (IF d - 2 > PIECE_6 THEN d - 2 ELSE PIECE_6) .. d

\* C13: the tile a successful step places on the board is a member of the
\* candidate set of the display value the session held before the step; when
\* the set has one member, that member is placed without asking the randomness
\* source.
C13_PlacedTileIsCandidate ==
    (call.op = "step" /\ call.raised = "none") =>
        /\ call.piece_to_add \in Candidates(call.before.future_piece)
        /\ board \in ExpectedBoards(call.before.board, call.direction, call.piece_to_add)
        /\ Cardinality(Candidates(call.before.future_piece)) = 1 => call.choice_arg = 0

\* A step that placed a piece below the display value, chosen among several.
C13_Witness ==
    /\ call.op = "step"
    /\ call.raised = "none"
    /\ call.before.future_piece > PIECE_6
    /\ call.piece_to_add < call.before.future_piece
    /\ call.choice_arg = Cardinality(Candidates(call.before.future_piece))
    /\ board \in ExpectedBoards(call.before.board, call.direction, call.piece_to_add)

\* A step that placed the only candidate.
C13_WitnessSingle ==
    /\ call.op = "step"
    /\ call.raised = "none"
    /\ call.before.future_piece = PIECE_6
    /\ call.piece_to_add = PIECE_6
    /\ call.choice_arg = 0

\* The cursors of the two queues just before the display value was chosen: for
\* a step those of the session before the step, for a reset those of the new
\* queues after init_board has drawn the initial tiles.
BasePosBefore ==
    IF call.op = "step" THEN call.before.next_piece_queue.pos
    ELSE INITIAL_PIECES_IN_BOARD - (IF high_pieces # <<>> THEN 1 ELSE 0) - 1
SpecialPosBefore ==
    IF call.op = "step" THEN call.before.special_queue.pos
    ELSE SPECIAL_PIECE_FREQUENCY - 1
DrewFrom(q, pos_before) == q.pos = (pos_before + 1) % Len(q.contents)
LastDrawn(q) == q.contents[q.pos + 1]
BaseDisplayed ==
    /\ DrewFrom(next_piece_queue, BasePosBefore)
    /\ future_piece = LastDrawn(next_piece_queue)
    /\ future_piece \in {PIECE_1, PIECE_2, PIECE_3}
SpecialDisplayed(max_special_piece) ==
    /\ next_piece_queue.pos = BasePosBefore
    /\ IF max_special_piece <= PIECE_24
       THEN future_piece = max_special_piece
       ELSE future_piece \in PIECE_24 .. max_special_piece

\* C14: at reset and after every successful step the display value is chosen
\* from the board as it is after the move: if the board maximum is below
\* PIECE_48 or the special-queue draw is false it is the next draw of the
\* base-tile queue (1, 2 or 3); otherwise it is max - 3 when max - 3 <= PIECE_24
\* and a value in PIECE_24 .. max - 3 when max - 3 > PIECE_24.
C14_DisplayFromBoardAfterMove ==
    (call.op \in {"reset", "step"} /\ call.raised = "none") =>
        IF BoardMax(board) < PIECE_48
        THEN special_queue.pos = SpecialPosBefore /\ BaseDisplayed
        ELSE /\ DrewFrom(special_queue, SpecialPosBefore)
             /\ IF ~LastDrawn(special_queue) THEN BaseDisplayed
                ELSE SpecialDisplayed(BoardMax(board) - 3)

\* The step that merges the first PIECE_48: the special queue is drawn from for
\* the first time, the draw is true and PIECE_6 = PIECE_48 - 3 goes on display.
C14_Witness ==
    /\ call.op = "step"
    /\ call.raised = "none"
    /\ BoardMax(call.before.board) < PIECE_48
    /\ BoardMax(board) = PIECE_48
    /\ LastDrawn(special_queue)
    /\ future_piece = PIECE_6
    /\ next_piece_queue = call.before.next_piece_queue
\* The other cases of C14: a special value from a range, at reset; a false
\* special draw; a board below PIECE_48.
C14_WitnessRange ==
    /\ call.op = "reset"
    /\ BoardMax(board) = PIECE_768
    /\ LastDrawn(special_queue)
    /\ future_piece = PIECE_768 - 3
C14_WitnessFalseDraw ==
    /\ call.op = "step"
    /\ call.raised = "none"
    /\ BoardMax(board) >= PIECE_48
    /\ ~LastDrawn(special_queue)
    /\ future_piece \in {PIECE_1, PIECE_2, PIECE_3}

\* C15: future_piece_possibilities(v) returns the singleton v for every
\* v <= PIECE_6, and for every v > PIECE_6 the contiguous range of integers from
\* max(PIECE_6, v - 2) to v inclusive, which ends at v and has at most 3 members.
C15_PossibilitiesRange ==
    call.op = "future_piece_possibilities" =>
        /\ SetOf(call.ret) = Candidates(call.before)
        /\ call.before <= PIECE_6 => call.ret = <<call.before>>
        /\ call.before > PIECE_6 =>
              /\ Len(call.ret) \in 2 .. 3
              /\ call.ret[1] = (IF call.before - 2 > PIECE_6 THEN call.before - 2 ELSE PIECE_6)
              /\ call.ret[Len(call.ret)] = call.before
              /\ \A k \in 1 .. Len(call.ret) - 1 : call.ret[k + 1] = call.ret[k] + 1

\* PIECE_12, the only code whose range is cut short by PIECE_6.
C15_Witness ==
    /\ call.op = "future_piece_possibilities"
    /\ call.before = PIECE_6 + 1
    /\ call.ret = <<PIECE_6, PIECE_6 + 1>>

\* C16: in every state returned by reset or by a successful step, every board
\* cell is a tile code of 0 .. MAX_PIECE and never the preview sentinel, and the
\* display value is a non-empty tile code whose candidate set is non-empty, has
\* at most 3 members and contains only codes of {1, 2, 3} or only codes of
\* PIECE_6 .. board maximum - 3.
C16_ReturnedStateIsValid ==
    (call.op \in {"reset", "step"} /\ call.raised = "none") =>
        /\ \A x \in Cells(Side(board)) :
               /\ board[x[1]][x[2]] \in EMPTY_SPACE .. MAX_PIECE
               /\ board[x[1]][x[2]] # POSSIBLE_FUTURE_PIECE
        /\ future_piece \in PIECE_1 .. MAX_PIECE
        /\ Candidates(future_piece) # {}
        /\ Cardinality(Candidates(future_piece)) <= 3
        /\ \/ Candidates(future_piece) \subseteq {PIECE_1, PIECE_2, PIECE_3}
           \/ Candidates(future_piece) \subseteq PIECE_6 .. (BoardMax(board) - 3)

\* A reset that returns a display value standing for three pieces.
C16_Witness ==
    /\ call.op = "reset"
    /\ call.raised = "none"
    /\ future_piece = PIECE_768 - 3
    /\ Cardinality(Candidates(future_piece)) = 3
    /\ Candidates(future_piece) = PIECE_24 .. (BoardMax(board) - 3)
\* A step that returns the last state of a game: a full board without a move.
C16_WitnessGameOver ==
    /\ call.op = "step"
    /\ call.raised = "none"
    /\ call.ret[2] = TRUE
    /\ ~BoardContains(board, EMPTY_SPACE)

\* The cells of a board row by row, and its tiles in ascending order.
Flat(b) ==
    [k \in 1 .. Len(b) * Len(b) |->
        b[((k - 1) \div Len(b)) + 1][((k - 1) % Len(b)) + 1]]
IsTile(c) == c # EMPTY_SPACE
TilesOf(cells) == Ascending(SelectSeq(cells, IsTile))
\* The first n items of the current pass of the base queue, in ascending order.
FirstDrawn(n) == Ascending(SubSeq(next_piece_queue.contents, 1, n))
NineBaseTiles ==
    /\ call.raised = "none"
    /\ Len(TilesOf(Flat(board))) = INITIAL_PIECES_IN_BOARD
    /\ \A x \in Cells(Side(board)) :
           board[x[1]][x[2]] \in {EMPTY_SPACE, PIECE_1, PIECE_2, PIECE_3}
    /\ TilesOf(Flat(board)) = FirstDrawn(INITIAL_PIECES_IN_BOARD)
    /\ Cardinality({x \in Cells(Side(board)) : board[x[1]][x[2]] = EMPTY_SPACE})
           = BoardSize * BoardSize - INITIAL_PIECES_IN_BOARD

\* C17: when the session is constructed without a pool of high starting tiles
\* (the default), reset succeeds and returns a board with exactly 9 non-empty
\* cells, each a base code of {1, 2, 3} drawn from the new base-tile queue, and
\* board_area - 9 empty cells; no high tile is placed.
C17_NoPoolResetPlacesNine ==
    (call.op = "reset" /\ high_pieces \in {<<NONE>>, <<>>}) => NineBaseTiles

\* C17 for the sessions constructed with high_pieces=[], not with the default.
C17_EmptyListResetPlacesNine ==
    (call.op = "reset" /\ high_pieces = <<>>) => NineBaseTiles
C17_WitnessEmptyList ==
    /\ call.op = "reset"
    /\ high_pieces = <<>>
    /\ NineBaseTiles
    /\ board[1] = <<EMPTY_SPACE, EMPTY_SPACE, EMPTY_SPACE, EMPTY_SPACE>>

\* C18: when a pool of high starting tiles is configured (a single value or a
\* list), every reset leaves the top-left cell holding a member of the pool and
\* the remaining cells holding exactly 8 base tiles of {1, 2, 3} drawn from the
\* base-tile queue and board_area - 9 empty cells, so the high tile replaces one
\* of the 9 initial tiles.
C18_PoolResetPlacesHighTile ==
    (call.op = "reset" /\ high_pieces \notin {<<NONE>>, <<>>}) =>
        /\ call.raised = "none"
        /\ board[1][1] \in SetOf(high_pieces)
        /\ \A k \in 2 .. BoardSize * BoardSize :
               Flat(board)[k] \in {EMPTY_SPACE, PIECE_1, PIECE_2, PIECE_3}
        /\ TilesOf(Tail(Flat(board))) = FirstDrawn(INITIAL_PIECES_IN_BOARD - 1)
        /\ Len(TilesOf(Tail(Flat(board)))) = INITIAL_PIECES_IN_BOARD - 1
        /\ Len(SelectSeq(Tail(Flat(board)), IsTile))
               = BoardSize * BoardSize - 1 - (BoardSize * BoardSize - INITIAL_PIECES_IN_BOARD)

\* A reset of a session whose pool is a list, with the base tiles shuffled.
C18_Witness ==
    /\ call.op = "reset"
    /\ call.raised = "none"
    /\ high_pieces = <<PIECE_48, PIECE_768>>
    /\ board[1][1] = PIECE_48
    /\ board[4] = <<PIECE_2, PIECE_3, PIECE_1, PIECE_2>>
\* The same for a pool given as a single value.
C18_WitnessSingleValue ==
    /\ call.op = "reset"
    /\ call.raised = "none"
    /\ high_pieces = <<PIECE_768>>
    /\ board[1][1] = PIECE_768
    /\ ncalls = 2

\* C19: the session's cumulative total score is 0 after every reset and, after
\* any sequence of steps since that reset, equals the sum of the score deltas
\* returned by the steps that succeeded; a step that fails with IllegalMove does
\* not change it.
C19_TotalScoreIsSumOfDeltas ==
    /\ (Constructed /\ Live) => total_score = score_returned
    /\ (call.op = "reset" /\ call.raised = "none") => total_score = 0
    /\ (call.op = "step" /\ call.raised = "none") =>
           total_score = call.before.total_score + call.ret[1]
    /\ (call.op = "step" /\ call.raised = "IllegalMoveError") =>
           total_score = call.before.total_score

\* The step that merges two PIECE_24 in a game that has scored 144 so far.
C19_Witness ==
    /\ call.op = "step"
    /\ call.raised = "none"
    /\ call.before.total_score = 144
    /\ call.ret[1] = 81
    /\ total_score = 225
    /\ score_returned = 225
\* A third call that is a reset, and a failed step after a step with a merge.
C19_WitnessReset ==
    /\ call.op = "reset"
    /\ call.raised = "none"
    /\ ncalls = 3
    /\ total_score = 0
    /\ score_returned = 0
    /\ high_pieces = <<PIECE_768>>
C19_WitnessSteps ==
    /\ call.op = "step"
    /\ call.raised = "IllegalMoveError"
    /\ ncalls = 3
    /\ total_score = 3
    /\ score_returned = 3

\* The k-th aligned block of n draws.
Block(k, n) == SubSeq(line, (k - 1) * n + 1, k * n)

\* C20: the shuffle queue never ends, and for a queue built from a multiset of
\* n >= 1 items every aligned block of n consecutive draws is a permutation of
\* that multiset: the queue reshuffles before the first draw and again exactly
\* when all n items of the current pass have been yielded, and the multiset of
\* its contents never changes.
C20_BlocksArePermutations ==
    call.op \in {"randomized_order_iter", "next"} =>
        LET n == Len(call.before) IN
        /\ Ascending(next_piece_queue.contents) = Ascending(call.before)
        /\ \A k \in 1 .. (Len(line) \div n) : Ascending(Block(k, n)) = Ascending(call.before)
        /\ call.op = "next" =>
              /\ call.raised = "none"
              /\ call.ret = line[Len(line)]
              /\ call.choice_arg # 0 <=> (Len(line) - 1) % n = 0
              /\ call.choice_arg # 0 => call.choice_arg = n
              /\ next_piece_queue.pos = (Len(line) - 1) % n
        /\ Len(line) < MaxPasses * n + 1 => ENABLED CallQueueNext

\* Two passes over [1, 1, 2] that came out in different orders, and the shuffle
\* that starts the third.
C20_Witness ==
    /\ call.op = "next"
    /\ call.before = <<PIECE_1, PIECE_1, PIECE_2>>
    /\ line = <<PIECE_2, PIECE_1, PIECE_1, PIECE_1, PIECE_2, PIECE_1, PIECE_1>>
    /\ call.choice_arg = 3

\* np.argmax over the last axis: the index of the first largest entry.
Argmax(group) ==
    (CHOOSE i \in 1 .. Len(group) :
        /\ \A j \in 1 .. Len(group) : group[j] <= group[i]
        /\ \A j \in 1 .. (i - 1) : group[j] < group[i]) - 1
Decoded(groups) == [k \in 1 .. Len(groups) |-> Argmax(groups[k])]

\* C21: for every integer array with values in [0, num_values), onehot_encode
\* with new_axis=true yields for each input element a group of num_values
\* entries with exactly one 1, at the index equal to the element's value, and 0
\* elsewhere, so that the arg-max over the last axis recovers the input; also
\* when the flattened input is longer than the chunk of 4096 elements.
C21_OnehotRoundTrip ==
    (call.op = "onehot_encode" /\ call.new_axis) =>
        /\ call.ret.shape = call.before.shape \o <<call.num_values>>
        /\ Len(call.ret.groups) = Len(call.before.data)
        /\ \A k \in 1 .. Len(call.before.data) :
               /\ Len(call.ret.groups[k]) = call.num_values
               /\ \A v \in 1 .. call.num_values :
                      call.ret.groups[k][v] = (IF v = call.before.data[k] + 1 THEN 1 ELSE 0)
        /\ Decoded(call.ret.groups) = call.before.data
        /\ line = call.before

\* An input of two chunks and one element more.
C21_Witness ==
    /\ call.op = "onehot_encode"
    /\ call.new_axis
    /\ Len(call.before.data) = 2 * ARANGE_LEN + 1
    /\ call.num_values = MaxValues
    /\ Decoded(call.ret.groups)[2 * ARANGE_LEN + 1] = call.before.data[2 * ARANGE_LEN + 1]
    /\ \E k \in 1 .. Len(call.before.data) : call.before.data[k] # 0

\* The cells of a board that hold a tile, and the lines of a move whose event
\* is a merge.
NonEmptyCells(b) == {x \in Cells(Len(b)) : b[x[1]][x[2]] # EMPTY_SPACE}
MergeFirst(ln) == HasEvent(ln) /\ ~EmptyThenTile(ln, FirstEvent(ln))
MergedLines(b, direction) ==
    {i \in 1 .. Len(b) : MergeFirst(LineToward(b, direction, i))}
LastIsEmpty(r) == r.line[Len(r.line)] = EMPTY_SPACE
MovedLeavesLastEmpty(r) == r.moved => LastIsEmpty(r)

\* Board `after` is board `collapsed` with the piece in a cell that was empty,
\* every other cell as it was.
PlacedInEmptyCell(collapsed, after, piece) ==
    /\ \E x \in Cells(Len(after)) :
           /\ collapsed[x[1]][x[2]] = EMPTY_SPACE
           /\ after[x[1]][x[2]] = piece
           /\ \A y \in Cells(Len(after)) \ {x} : after[y[1]][y[2]] = collapsed[y[1]][y[2]]
    /\ NonEmptyCells(collapsed) \subseteq NonEmptyCells(after)

\* C22: whenever move_line_left has moved a line, the last cell of the line is
\* empty afterwards; hence the tile move_board places lands in an empty cell
\* and overwrites no tile, and after a successful move_board the number of
\* non-empty cells is the number before, minus the number of lines in which a
\* merge fired, plus one.
C22_PlacedTileLandsInEmptyCell ==
    (call.op = "move_board" /\ call.raised = "none") =>
        /\ \A i \in 1 .. Len(call.before) :
               MovedLeavesLastEmpty(
                   MoveLineLeft(LineToward(call.before, call.direction, i), TRUE))
        /\ PlacedInEmptyCell(InnerMoveBoard(call.before, call.direction).board,
                             board, call.piece_to_add)
        /\ Cardinality(NonEmptyCells(board))
               = Cardinality(NonEmptyCells(call.before))
                     - Cardinality(MergedLines(call.before, call.direction)) + 1

\* A move of a full board of side 2: one line merges, its last cell held a
\* tile before the move and receives the new tile.
C22_Witness ==
    /\ call.op = "move_board"
    /\ call.raised = "none"
    /\ Len(call.before) = 2
    /\ Cardinality(NonEmptyCells(call.before)) = 4
    /\ Cardinality(MergedLines(call.before, call.direction)) = 1
    /\ Cardinality(NonEmptyCells(board)) = 4
\* A move of a board of side 3 in which two lines merge and the third is stuck.
C22_WitnessTwoMerges ==
    /\ call.op = "move_board"
    /\ call.raised = "none"
    /\ Cardinality(MergedLines(call.before, call.direction)) = 2
    /\ Cardinality(MovableLines(call.before, call.direction)) = 2
    /\ Len(call.before) = 3
    /\ Cardinality(NonEmptyCells(board)) = Cardinality(NonEmptyCells(call.before)) - 1

\* The display choices since reset that were made on a board whose maximum is
\* at least PIECE_48, and the k-th aligned block of 21 of them.
OnHighBoard(e) == e.max >= PIECE_48
HighChoices == SelectSeq(line, OnHighBoard)
SpecialsIn(choices, k) ==
    {i \in ((k - 1) * SPECIAL_PIECE_FREQUENCY + 1) .. (k * SPECIAL_PIECE_FREQUENCY) :
        ~choices[i].base_drawn}
SpecialQueueBefore ==
    IF call.op = "reset" THEN NewQueue(SpecialQueueContents) ELSE call.before.special_queue
AdvancedOnce(before, after) ==
    /\ after.pos = (before.pos + 1) % SPECIAL_PIECE_FREQUENCY
    /\ after.pos # 0 => after.contents = before.contents
    /\ Cardinality({k \in 1 .. SPECIAL_PIECE_FREQUENCY : after.contents[k]}) = 1
    /\ Len(after.contents) = SPECIAL_PIECE_FREQUENCY

\* C23: the special queue is advanced exactly once by each display choice made
\* while the board maximum is >= PIECE_48 and never by a display choice made
\* while it is lower; counted in aligned blocks of 21 such display choices
\* since reset, exactly one display choice per block is special (not drawn
\* from the base-tile queue).
C23_OneSpecialPerBlock ==
    /\ (call.op \in {"reset", "step", "choose_future_piece_display"}
           /\ call.raised = "none") =>
          /\ line # <<>>
          /\ line[Len(line)].max = BoardMax(board)
          /\ IF BoardMax(board) >= PIECE_48
             THEN AdvancedOnce(SpecialQueueBefore, special_queue)
             ELSE special_queue = SpecialQueueBefore /\ line[Len(line)].base_drawn
          /\ ~line[Len(line)].base_drawn =>
                 special_queue.contents[special_queue.pos + 1]
    /\ (call.op = "step" /\ call.raised # "none") =>
          special_queue = call.before.special_queue
    /\ \A i \in 1 .. Len(line) : ~line[i].base_drawn => line[i].max >= PIECE_48
    /\ \A k \in 1 .. (Len(HighChoices) \div SPECIAL_PIECE_FREQUENCY) :
          Cardinality(SpecialsIn(HighChoices, k)) = 1
    /\ (Constructed /\ Len(HighChoices) = 0) =>
          special_queue = NewQueue(SpecialQueueContents)
    /\ Len(HighChoices) > 0 =>
          special_queue.pos = (Len(HighChoices) - 1) % SPECIAL_PIECE_FREQUENCY

\* Two full blocks since a reset: the special choice is the first of the first
\* block and the last of the second, and a third block has begun.
C23_Witness ==
    /\ Len(HighChoices) = 2 * SPECIAL_PIECE_FREQUENCY + 1
    /\ SpecialsIn(HighChoices, 1) = {1}
    /\ SpecialsIn(HighChoices, 2) = {2 * SPECIAL_PIECE_FREQUENCY}
    /\ call.op = "choose_future_piece_display"
    /\ special_queue.pos = 0
\* A step whose merge brings the board maximum to PIECE_48: its display choice
\* is the first to advance the special queue; the choices before it did not.
C23_WitnessStep ==
    /\ call.op = "choose_future_piece_display"
    /\ Len(line) >= 3
    /\ line[1].max < PIECE_48
    /\ line[1].base_drawn
    /\ line[2].max = PIECE_48
    /\ Len(HighChoices) = Len(line) - 1

\* No line of the board can move in any direction.
Blocked(b) == \A direction \in Directions : MovableLines(b, direction) = {}

\* C24: game over by blockage is absorbing: once a step has returned
\* game_over = true for a board without MAX_PIECE, the board is blocked, and
\* every step on a blocked board, in every direction, fails with IllegalMove
\* and leaves the board, the display value and the total score as they were,
\* so the board stays blocked until reset is called.
C24_BlockageIsAbsorbing ==
    /\ (call.op = "step" /\ call.raised = "none" /\ call.ret[2]
           /\ ~BoardContains(board, MAX_PIECE)) => Blocked(board)
    /\ (call.op = "step" /\ Blocked(call.before.board)) =>
          /\ call.raised = "IllegalMoveError"
          /\ board = call.before.board
          /\ future_piece = call.before.future_piece
          /\ total_score = call.before.total_score
          /\ Blocked(board)
    /\ (call.op = "reset" /\ call.raised = "none") => ~Blocked(board)

\* The step that fills the last cell of a board and returns game_over = true.
C24_WitnessGameOver ==
    /\ call.op = "step"
    /\ call.raised = "none"
    /\ call.ret[2]
    /\ ~BoardContains(board, MAX_PIECE)
    /\ ~BoardContains(board, EMPTY_SPACE)
\* A failed step on the blocked board that step left, as the last of three
\* calls.
C24_Witness ==
    /\ call.op = "step"
    /\ call.raised = "IllegalMoveError"
    /\ Blocked(call.before.board)
    /\ ~BoardContains(board, MAX_PIECE)
    /\ board # MidGameLast.board
    /\ total_score = MidGameLast.total_score
    /\ ncalls = MaxCalls

\* C25: a step that fails with IllegalMove makes no draw from the session's
\* randomness source (so the result of the next successful step does not
\* depend on how many illegal steps were attempted before it).
C25_FailedStepDrawsNothing ==
    (call.op = "step" /\ call.raised = "IllegalMoveError") => call.choice_arg = 0

\* What the code does: a failed step has asked the randomness source for the
\* piece exactly when the display value stands for several pieces, and has
\* asked for nothing else: no line was chosen and no queue was shuffled.
C25_FailedStepDrawsPieceOnly ==
    (call.op = "step" /\ call.raised = "IllegalMoveError") =>
        /\ call.choice_arg = 0 <=> Cardinality(Candidates(call.before.future_piece)) = 1
        /\ call.choice_arg # 0 =>
               call.choice_arg = Cardinality(Candidates(call.before.future_piece))
        /\ next_piece_queue = call.before.next_piece_queue
        /\ special_queue = call.before.special_queue

\* The face value of a tile code (1, 2, 3, 6, 12, ...), the sum over a board,
\* and the largest sum a board without MAX_PIECE can have.
Face(c) == IF c <= PIECE_3 THEN c ELSE 3 * 2 ^ (c - PIECE_3)
RECURSIVE SumFaces(_, _, _)
SumFaces(b, i, j) ==
    IF i > Len(b) THEN 0
    ELSE IF j > Len(b) THEN SumFaces(b, i + 1, 1)
    ELSE Face(b[i][j]) + SumFaces(b, i, j + 1)
FaceSum(b) == SumFaces(b, 1, 1)
FaceSumBound == BoardSize * BoardSize * Face(MAX_PIECE - 1)

\* C26: every play terminates: there is no infinite sequence of successful
\* steps during which game_over stays false, because each successful step
\* strictly increases the sum of the tiles' face values (the collapse, merges
\* and shifts, conserves the sum and the placed tile adds its face value),
\* a board with MAX_PIECE ends the play, and the sum of a board without
\* MAX_PIECE is bounded.
C26_FaceSumIsVariant ==
    /\ (call.op = "step" /\ call.raised = "none") =>
          /\ FaceSum(InnerMoveBoard(call.before.board, call.direction).board)
                 = FaceSum(call.before.board)
          /\ FaceSum(board) = FaceSum(call.before.board) + Face(call.piece_to_add)
          /\ Face(call.piece_to_add) >= 1
          /\ FaceSum(board) > FaceSum(call.before.board)
          /\ BoardContains(board, MAX_PIECE) => call.ret[2]
          /\ ~call.ret[2] => FaceSum(board) <= FaceSumBound
    /\ (call.op = "step" /\ call.raised # "none") =>
          FaceSum(board) = FaceSum(call.before.board)
    /\ (Constructed /\ Live /\ ~BoardContains(board, MAX_PIECE)) =>
          FaceSum(board) <= FaceSumBound

\* A successful step whose collapse merged two 24s into a 48 and which placed a
\* 3: the sum grew by 3 and the game goes on.
C26_Witness ==
    /\ call.op = "step"
    /\ call.raised = "none"
    /\ ~call.ret[2]
    /\ BoardMax(call.before.board) = PIECE_24
    /\ BoardMax(board) = PIECE_48
    /\ FaceSum(board) = FaceSum(call.before.board) + 3
\* The first step of a game that started with the top piece: game_over is
\* true.
C26_WitnessTop ==
    /\ call.op = "step"
    /\ call.raised = "none"
    /\ BoardContains(board, MAX_PIECE)
    /\ call.ret[2]
    /\ ~Blocked(board)

\* A line collapse that returns has a score delta >= 0, and > 0 exactly when
\* its event is a merge.
DeltaSignOf(ln, r) ==
    r.raised = "none" =>
        /\ r.score_delta >= 0
        /\ r.score_delta > 0 <=> (r.moved /\ MergeFirst(ln))
DeltaSign(ln) == DeltaSignOf(ln, MoveLineLeft(ln, TRUE))

\* C27: the score delta of every successful line collapse and board move is
\* >= 0, and it is > 0 exactly when at least one merge fired; hence the
\* session's total score never decreases between resets.  (The collapse of a
\* two-cell line depends on the line alone: every pair of codes is tried in
\* the states in which no call has been made yet.)
C27_ScoreNeverDecreases ==
    /\ ncalls = 0 =>
          \A a \in EMPTY_SPACE .. MAX_PIECE, b \in EMPTY_SPACE .. MAX_PIECE :
              DeltaSign(<<a, b>>)
    /\ call.op = "step" =>
          /\ \A i \in 1 .. BoardSize :
                 DeltaSign(LineToward(call.before.board, call.direction, i))
          /\ call.raised = "none" =>
                 /\ call.ret[1] >= 0
                 /\ call.ret[1] > 0 <=> MergedLines(call.before.board, call.direction) # {}
                 /\ call.ret[1] = MoveBoard(call.before.board, call.direction,
                                            call.piece_to_add, call.row_to_add).ret
                 /\ total_score = call.before.total_score + call.ret[1]
          /\ total_score >= call.before.total_score
    /\ total_score >= 0

\* A step in which a line merged: the total score grew.
C27_Witness ==
    /\ call.op = "step"
    /\ call.raised = "none"
    /\ Cardinality(MergedLines(call.before.board, call.direction)) >= 2
    /\ total_score > call.before.total_score
    /\ call.before.total_score > 0
\* A step that only shifted: the total score stayed.
C27_WitnessShift ==
    /\ call.op = "step"
    /\ call.raised = "none"
    /\ MergedLines(call.before.board, call.direction) = {}
    /\ call.ret[1] = 0
    /\ total_score = call.before.total_score
    /\ total_score > 0

\* C28: in the interactive loop every BACKSPACE undoes exactly one successful
\* move: it restores the session (board, display value, draw queues), the
\* score and the move count to what they were immediately before the most
\* recent successful move that has not yet been undone, for any interleaving
\* of legal moves, illegal moves and undos.
C28_BackspaceUndoesLastMove ==
    (call.op = "BACKSPACE" /\ call.undoable_before # <<>>) =>
        /\ Snapshot = Last(call.undoable_before).snapshot
        /\ ncalls = call.before.n_moves - 1
        /\ call.undoable = Front(call.undoable_before)

\* What the code does: BACKSPACE restores the snapshot taken before the last
\* direction key that has not been taken back, whether or not that key moved
\* the board; after a key that failed with IllegalMove it changes nothing but
\* the list of snapshots.
C28_BackspaceRestoresLastSnapshot ==
    /\ Len(line) >= Len(call.undoable)
    /\ (call.op = "BACKSPACE" /\ call.undoable_before # <<>>) =>
          \/ /\ Snapshot = Last(call.undoable_before).snapshot
             /\ call.undoable = Front(call.undoable_before)
          \/ /\ Snapshot = call.before
             /\ call.undoable = call.undoable_before

====
